---- MODULE Spec2Model ----
(***************************************************************************)
(* The heuristic analytics pipeline of agileflow (ghost_scrum_master/core): *)
(* ticket discovery from commit messages (board_scanner.py), the technical  *)
(* debt sentinel (debt_sentinel.py) and the sprint velocity forecaster      *)
(* (velocity.py).                                                           *)
(*                                                                         *)
(* A Python str is a sequence of one-character strings, so that regular     *)
(* expressions, lower(), "in" and string comparison are computed character  *)
(* by character.  Author names are atoms: the code only compares them for   *)
(* equality and puts them in sets and dict keys.                            *)
(***************************************************************************)
EXTENDS Integers, Sequences, FiniteSets, TLC

VARIABLES
    op,              \* the operation called on the object
    history,         \* the commit records (BoardScanner.commits, *.history)
    board_in,        \* the board handed to VelocityForecaster (self.board)
    sprint_days,     \* VelocityForecaster.sprint_days
    days_elapsed,    \* VelocityForecaster.days_elapsed
    pc,              \* position in the running operation
    i,               \* index of the next commit of the "for commit in" loop
    ticket_ids,      \* discover_tickets: ticket_ids, the list _extract_tickets last returned
    ticket_data,     \* discover_tickets: the defaultdict, in insertion order
    board,           \* discover_tickets: the board returned
    debt_items,      \* analyze_diffs: debt_items
    file_hotspots,   \* analyze_diffs: the Counter, in insertion order
    score,           \* calculate_debt_score: the score returned
    refactor_tickets, \* generate_refactor_tickets: tickets
    health_score,    \* calculate_health_score: score
    alerts,          \* calculate_health_score: alerts
    daily_commits,   \* get_commit_velocity: daily_commits, in insertion order
    author_commits,  \* get_commit_velocity: author_commits, in insertion order
    velocity,        \* forecast_sprint: velocity
    progress,        \* forecast_sprint: progress
    risk_level,      \* forecast_sprint: risk_level
    risks,           \* forecast_sprint: risks
    recommendations, \* forecast_sprint: recommendations
    calls,           \* the positions (pc, i) of the calls that are not running
    comments,        \* GitHub: the comments of the pull request, oldest first
    handlers         \* the webhook requests: event, action, position and "existing"

inputVars == <<op, history, board_in, sprint_days, days_elapsed>>
boardVars == <<ticket_ids, ticket_data, board>>
debtVars == <<debt_items, file_hotspots, score, refactor_tickets>>
healthVars == <<health_score, alerts>>
forecastVars == <<daily_commits, author_commits, velocity, progress, risk_level, risks, recommendations>>
webhookVars == <<comments, handlers>>
vars == <<inputVars, pc, i, boardVars, debtVars, healthVars, forecastVars, calls, webhookVars>>

-----------------------------------------------------------------------------
(* Bounds of the model.                                                    *)

MaxCommits == 2

MaxDebtCommits == 3

\* Forecast inputs: commits of the main author, tickets per status, days.
MaxPerAuthor == 4

MaxPerStatus == 2

MaxSprintDays == 3

\* Progress inputs: the size of the board and the length of the sprint.
MaxBoardSize == 10

MaxProgressDays == 14

\* Cadence inputs: the length of the history.
MaxLongHistory == 200

\* Inputs of the specification of all operations: commits, tickets, days.
MaxAllCommits == 2

MaxAllTickets == 2

MaxAllDays == 2

\* Health inputs: commits that mention a fix, late commits, tickets per kind.
MaxFixCommits == 4

MaxLateCommits == 3

MaxPerKind == 3

\* Webhook requests delivered for the pull request.
MaxEvents == 2

\* Commits of the batches that differ in their dates.
MaxDatedCommits == 3

-----------------------------------------------------------------------------
(* Python str as a sequence of characters.                                 *)

Digits == <<"0", "1", "2", "3", "4", "5", "6", "7", "8", "9">>

UpperLetters == <<"A", "B", "C", "D", "E", "F", "G", "H", "I", "J", "K", "L", "M", "N", "O", "P", "Q", "R", "S", "T", "U", "V", "W", "X", "Y", "Z">>

LowerLetters == <<"a", "b", "c", "d", "e", "f", "g", "h", "i", "j", "k", "l", "m", "n", "o", "p", "q", "r", "s", "t", "u", "v", "w", "x", "y", "z">>

\* The characters of the model in code point order (ASCII).
CodeOrder == <<"\n", " ", "#", "+", "-", "/">> \o Digits \o <<":">> \o UpperLetters \o <<"[", "]", "_">> \o LowerLetters

Range(s) == {s[k] : k \in 1..Len(s)}

DigitChars == Range(Digits)

UpperChars == Range(UpperLetters)

\* \w of the re module (ASCII part): letters, digits and the underscore.
WordChars == Range(UpperLetters) \cup Range(LowerLetters) \cup DigitChars \cup {"_"}

\* \s of the re module, restricted to the characters of the model.
SpaceChars == {" ", "\n"}

\* ord(c)
Ord(c) == CHOOSE k \in 1..Len(CodeOrder) : CodeOrder[k] = c

\* str.lower() on one character
LowerChar(c) == IF c \in UpperChars THEN LowerLetters[CHOOSE k \in 1..Len(UpperLetters) : UpperLetters[k] = c] ELSE c

\* str.lower()
lower(s) == [k \in 1..Len(s) |-> LowerChar(s[k])]

\* a < b on str: lexicographic by code point
RECURSIVE StrLess(_, _)
StrLess(a, b) ==
    IF b = <<>> THEN FALSE
    ELSE IF a = <<>> THEN TRUE
    ELSE IF a[1] = b[1] THEN StrLess(Tail(a), Tail(b))
    ELSE Ord(a[1]) < Ord(b[1])

\* sub in s
Contains(sub, s) == \E k \in 0..(Len(s) - Len(sub)) : SubSeq(s, k + 1, k + Len(sub)) = sub

\* s.startswith(p)
StartsWith(s, p) == Len(s) >= Len(p) /\ SubSeq(s, 1, Len(p)) = p

\* str.isdigit()
IsDigitStr(s) == s # <<>> /\ \A k \in 1..Len(s) : s[k] \in DigitChars

\* The length of the longest run of characters of class C that starts at p.
RECURSIVE RunLen(_, _, _)
RunLen(s, p, C) == IF p <= Len(s) /\ s[p] \in C THEN 1 + RunLen(s, p + 1, C) ELSE 0

\* \b before position p: exactly one of s[p-1], s[p] is a word character.
WordBoundary(s, p) ==
    LET before == p > 1 /\ p - 1 <= Len(s) /\ s[p - 1] \in WordChars
        after == p >= 1 /\ p <= Len(s) /\ s[p] \in WordChars
    IN  before # after

\* The elements of a sequence that satisfy no duplicates, as orderings of a set.
Orderings(S) == {s \in [1..Cardinality(S) -> S] : \A a, b \in 1..Cardinality(S) : a # b => s[a] # s[b]}

-----------------------------------------------------------------------------
(* board_scanner.py                                                        *)

\* Each pattern is: optional leading \b, optional [A-Z]{2,10}, a literal,
\* \d+, \b.  The group is either the whole match or the digits.
TICKET_PATTERNS ==
    << [lead |-> TRUE, letters |-> TRUE, lit |-> <<"-">>, group |-> "all"],
       [lead |-> FALSE, letters |-> FALSE, lit |-> <<"#">>, group |-> "digits"],
       [lead |-> TRUE, letters |-> FALSE, lit |-> <<"G", "H", "-">>, group |-> "digits"],
       [lead |-> TRUE, letters |-> FALSE, lit |-> <<"F", "I", "X", "-">>, group |-> "digits"] >>

\* Where the literal of the pattern starts for a match attempted at p.  The
\* greedy [A-Z]{2,10} must take the whole run of capitals: the next character
\* has to be the literal "-", which is no capital.
LitStart(pat, s, p) == IF pat.letters THEN p + RunLen(s, p, UpperChars) ELSE p

\* The end (exclusive) of the match of pat at position p of s, 0 when the
\* pattern does not match there.  \d+ must take the whole run of digits: the
\* closing \b cannot fall between two digits.
MatchEnd(pat, s, p) ==
    LET q == LitStart(pat, s, p)
        d == q + Len(pat.lit)
        e == d + RunLen(s, d, DigitChars)
    IN  IF /\ pat.lead => WordBoundary(s, p)
           /\ pat.letters => (q - p) \in 2..10
           /\ d - 1 <= Len(s)
           /\ SubSeq(s, q, d - 1) = pat.lit
           /\ e > d
           /\ WordBoundary(s, e)
        THEN e ELSE 0

\* The group of the match of pat at p that ends at e.
Group(pat, s, p, e) ==
    IF pat.group = "all" THEN SubSeq(s, p, e - 1)
    ELSE SubSeq(s, LitStart(pat, s, p) + Len(pat.lit), e - 1)

\* re.findall(pattern, message): the groups of the non-overlapping matches,
\* scanning from the left.
RECURSIVE findall(_, _, _)
findall(pat, s, p) ==
    IF p > Len(s) THEN <<>>
    ELSE LET e == MatchEnd(pat, s, p)
         IN  IF e > 0 THEN <<Group(pat, s, p, e)>> \o findall(pat, s, e)
             ELSE findall(pat, s, p + 1)

\* Every match used as it is.
NormalizeNothing(match) == match

\* Normalize: GitHub issues get a # prefix
Normalize(match) == IF IsDigitStr(match) THEN <<"#">> \o match ELSE match

\* The list tickets of _extract_tickets before deduplication.
RECURSIVE TicketList(_, _)
TicketList(message, k) ==
    IF k > Len(TICKET_PATTERNS) THEN <<>>
    ELSE LET matches == findall(TICKET_PATTERNS[k], message, 1)
         IN  [m \in 1..Len(matches) |-> Normalize(matches[m])] \o TicketList(message, k + 1)

\* _extract_tickets returns list(set(tickets)): the ids without duplicates,
\* in the iteration order of a set of str, which is not determined by the
\* program (str hashes are randomized per process).  The set is modelled
\* here; the callers choose the order.
_extract_tickets(message) == Range(TicketList(message, 1))

\* None, distinct from every str.
None == <<"None">>

\* not x, for x a str or None
Falsy(x) == x = None \/ x = <<>>

\* The default value of the defaultdict.
NewTicketData(ticket_id) == [id |-> ticket_id, commits |-> <<>>, authors |-> {}, first_seen |-> None, last_seen |-> None, messages |-> <<>>]

\* The position of ticket_id in the dict, 0 when it is no key.
KeyIndex(td, ticket_id) == IF \E k \in 1..Len(td) : td[k].id = ticket_id THEN CHOOSE k \in 1..Len(td) : td[k].id = ticket_id ELSE 0

\* commit.get('hash', '')[:7]
ShortHash(commit) == SubSeq(commit.hash, 1, IF Len(commit.hash) < 7 THEN Len(commit.hash) ELSE 7)

\* The updates with the two comparisons exchanged: first_seen takes the
\* later date and last_seen the earlier one.
UpdateEntrySwapped(e, commit) ==
    [e EXCEPT !.commits = Append(@, ShortHash(commit)),
              !.authors = @ \cup {commit.author},
              !.messages = Append(@, commit.message),
              !.first_seen = IF Falsy(@) \/ StrLess(@, commit.date) THEN commit.date ELSE @,
              !.last_seen = IF Falsy(@) \/ StrLess(commit.date, @) THEN commit.date ELSE @]

\* The updates of lines 48-55 on one entry.
UpdateEntry(e, commit) ==
    [e EXCEPT !.commits = Append(@, ShortHash(commit)),
              !.authors = @ \cup {commit.author},
              !.messages = Append(@, commit.message),
              !.first_seen = IF Falsy(@) \/ StrLess(commit.date, @) THEN commit.date ELSE @,
              !.last_seen = IF Falsy(@) \/ StrLess(@, commit.date) THEN commit.date ELSE @]

\* A dict that never finds an existing key: every reference opens a new entry.
AccumulateNoMerge(td, ticket_id, commit) == Append(td, UpdateEntry(NewTicketData(ticket_id), commit))

\* The body of "for ticket_id in ticket_ids" for one id: td = ticket_data[ticket_id]
\* creates the entry when the key is new, then the entry is updated.
Accumulate(td, ticket_id, commit) ==
    LET k == KeyIndex(td, ticket_id)
    IN  IF k = 0 THEN Append(td, UpdateEntry(NewTicketData(ticket_id), commit))
        ELSE [td EXCEPT ![k] = UpdateEntry(@, commit)]

\* The inner loop over ticket_ids, a list in the given order.
RECURSIVE AccumulateAll(_, _, _)
AccumulateAll(td, ids, commit) ==
    IF ids = <<>> THEN td
    ELSE AccumulateAll(Accumulate(td, Head(ids), commit), Tail(ids), commit)

done_signals == << <<"f", "i", "x", ":">>, <<"f", "i", "x", "e", "s">>, <<"f", "i", "x", "e", "d">>, <<"r", "e", "s", "o", "l", "v", "e">>, <<"r", "e", "s", "o", "l", "v", "e", "d">>, <<"c", "l", "o", "s", "e">>, <<"c", "l", "o", "s", "e", "d">>, <<"c", "o", "m", "p", "l", "e", "t", "e">>, <<"d", "o", "n", "e">> >>

feat_signals == << <<"f", "e", "a", "t", ":">>, <<"f", "e", "a", "t", "u", "r", "e">>, <<"i", "m", "p", "l", "e", "m", "e", "n", "t">>, <<"a", "d", "d", ":">> >>

wip_signals == << <<"w", "i", "p">>, <<"d", "r", "a", "f", "t">>, <<"p", "a", "r", "t", "i", "a", "l">>, <<"p", "r", "o", "g", "r", "e", "s", "s">>, <<"r", "e", "f", "a", "c", "t", "o", "r">> >>

\* The last message alone.
JoinLast(messages) == IF messages = <<>> THEN <<>> ELSE messages[Len(messages)]

\* ' '.join(messages)
RECURSIVE Join(_)
Join(messages) ==
    IF messages = <<>> THEN <<>>
    ELSE IF Len(messages) = 1 THEN messages[1]
    ELSE messages[1] \o <<" ">> \o Join(Tail(messages))

\* any(signal in all_text for signal in signals)
AnySignal(signals, all_text) == \E k \in 1..Len(signals) : Contains(signals[k], all_text)

\* Status inference that forgets the feature signals.
_infer_status_no_feat(messages) ==
    LET all_text == lower(Join(messages))
    IN  IF AnySignal(done_signals, all_text) THEN "Done" ELSE "In Progress"

_infer_status(messages) ==
    LET all_text == lower(Join(messages))
    IN  IF AnySignal(done_signals, all_text) THEN "Done"
        ELSE IF AnySignal(feat_signals, all_text) THEN "Done"
        ELSE IF AnySignal(wip_signals, all_text) THEN "In Progress"
        ELSE "In Progress"

\* One ticket of the board (the title is not modelled: no property below reads
\* it).  list(data['authors']) is the given ordering of the set of authors.
BoardEntry(data, authors) ==
    [id |-> data.id,
     status |-> _infer_status(data.messages),
     assignee |-> IF authors # <<>> THEN authors[1] ELSE "unassigned",
     contributors |-> authors,
     commit_count |-> Len(data.commits),
     first_seen |-> data.first_seen,
     last_seen |-> data.last_seen]

\* The sort without reverse=True.
RECURSIVE InsertAsc(_, _)
InsertAsc(sorted, x) ==
    IF sorted = <<>> THEN <<x>>
    ELSE IF StrLess(x.last_seen, Head(sorted).last_seen) THEN <<x>> \o sorted
    ELSE <<Head(sorted)>> \o InsertAsc(Tail(sorted), x)

\* list.sort(key=last_seen, reverse=True): stable, so tickets with equal keys
\* keep their order.  Insertion of x after every element whose key is >= x's.
RECURSIVE InsertDesc(_, _)
InsertDesc(sorted, x) ==
    IF sorted = <<>> THEN <<x>>
    ELSE IF StrLess(Head(sorted).last_seen, x.last_seen) THEN <<x>> \o sorted
    ELSE <<Head(sorted)>> \o InsertDesc(Tail(sorted), x)

RECURSIVE SortByLastSeen(_, _)
SortByLastSeen(sorted, rest) ==
    IF rest = <<>> THEN sorted
    ELSE SortByLastSeen(InsertDesc(sorted, Head(rest)), Tail(rest))

\* _build_board, with order[k] the iteration order of the k-th authors set.
_build_board(td, order) == SortByLastSeen(<<>>, [k \in 1..Len(td) |-> BoardEntry(td[k], order[k])])

\* The iteration orders the sets of authors can have: one ordering per entry.
RECURSIVE AuthorOrders(_)
AuthorOrders(td) ==
    IF td = <<>> THEN {<<>>}
    ELSE {<<o>> \o rest : o \in Orderings(Head(td).authors), rest \in AuthorOrders(Tail(td))}

\* The dicts the loop of lines 39-55 can leave, from the dicts tds: one per
\* iteration order of each list(set(tickets)).
RECURSIVE ScanAll(_, _)
ScanAll(tds, commits) ==
    IF commits = <<>> THEN tds
    ELSE ScanAll(UNION {{AccumulateAll(td, ids, Head(commits)) : ids \in Orderings(_extract_tickets(Head(commits).message))} : td \in tds},
                 Tail(commits))

\* The boards discover_tickets can return for a batch.
discover_tickets(commits) == UNION {{_build_board(td, order) : order \in AuthorOrders(td)} : td \in ScanAll({<<>>}, commits)}

-----------------------------------------------------------------------------
(* Inputs.                                                                 *)

Authors == {"alice", "bob"}

EmptyDate == <<>>

DateMorning == <<"2", "0", "2", "4", "-", "0", "1", "-", "0", "5", "T", "1", "0", ":", "0", "0", ":", "0", "0", "Z">>

DateNight == <<"2", "0", "2", "4", "-", "0", "1", "-", "0", "6", "T", "2", "1", ":", "3", "0", ":", "0", "0", "Z">>

DateGarbage == <<"y", "e", "s", "t", "e", "r", "d", "a", "y">>

MsgCloseGH == <<"C", "l", "o", "s", "e", "s", " ", "G", "H", "-", "1", "2">>

MsgFix == <<"f", "i", "x", ":", " ", "r", "e", "s", "o", "l", "v", "e", " ", "P", "R", "O", "J", "-", "1", " ", "b", "u", "g">>

MsgFeat == <<"f", "e", "a", "t", ":", " ", "a", "d", "d", " ", "P", "R", "O", "J", "-", "1", " ", "e", "x", "p", "o", "r", "t">>

MsgWip == <<"w", "i", "p", " ", "P", "R", "O", "J", "-", "1", " ", "#", "7">>

MsgBare == <<"F", "I", "X", "-", "3">>

PROJ1 == <<"P", "R", "O", "J", "-", "1">>

SomeHash == <<"c", "0", "f", "f", "e", "e", "1", "2", "3">>

NoDiff == <<>>

\* Sequences of at most n elements of S.
SeqUpTo(S, n) == UNION {[1..k -> S] : k \in 0..n}

BoardMessages == {MsgCloseGH, MsgFix, MsgFeat, MsgWip, MsgBare}

BoardDates == {EmptyDate, DateMorning, DateNight}

BoardCommits == {[hash |-> SomeHash, author |-> a, date |-> d, message |-> m, diff |-> NoDiff] : a \in Authors, d \in BoardDates, m \in BoardMessages}

-----------------------------------------------------------------------------
(* discover_tickets                                                        *)

\* One call alone: no other call is in progress.
SingleCall == calls = <<>>

\* No webhook request.
IdleWebhook == comments = <<>> /\ handlers = <<>>

IdleDebt == debt_items = <<>> /\ file_hotspots = <<>> /\ score = 0 /\ refactor_tickets = <<>>

\* score = 100 (an int, kept as the fraction 100 / 1) and alerts = []
IdleHealth == health_score = [num |-> 100, den |-> 1, float |-> FALSE] /\ alerts = <<>>

IdleForecast == daily_commits = <<>> /\ author_commits = <<>> /\ velocity = <<>> /\ progress = <<>> /\ risk_level = "LOW" /\ risks = <<>> /\ recommendations = <<>>

InitBoard ==
    /\ op = "discover_tickets"
    /\ history \in SeqUpTo(BoardCommits, MaxCommits)
    /\ board_in = <<>>
    /\ sprint_days = 14
    /\ days_elapsed = 7
    /\ pc = "scan"
    /\ i = 1
    /\ ticket_ids = <<>>
    /\ ticket_data = <<>>
    /\ board = <<>>
    /\ IdleDebt
    /\ IdleHealth
    /\ IdleForecast
    /\ SingleCall
    /\ IdleWebhook

\* One iteration of "for commit in self.commits" (lines 39-55).
ScanCommit ==
    /\ pc = "scan"
    /\ i <= Len(history)
    /\ \E ids \in Orderings(_extract_tickets(history[i].message)) :
           /\ ticket_ids' = ids
           /\ ticket_data' = AccumulateAll(ticket_data, ids, history[i])
    /\ i' = i + 1
    /\ UNCHANGED <<inputVars, calls, webhookVars, pc, board, debtVars, forecastVars, healthVars>>

\* return self._build_board(ticket_data) (line 57).
BuildBoard ==
    /\ pc = "scan"
    /\ i > Len(history)
    /\ \E order \in AuthorOrders(ticket_data) : board' = _build_board(ticket_data, order)
    /\ pc' = "done"
    /\ UNCHANGED <<inputVars, calls, webhookVars, i, ticket_ids, ticket_data, debtVars, forecastVars, healthVars>>

NextBoard == ScanCommit \/ BuildBoard

SpecBoard == InitBoard /\ [][NextBoard]_vars

-----------------------------------------------------------------------------
(* Properties of discover_tickets.                                         *)

\* The commits of the input whose message yields the id.
Associated(id) == {k \in 1..Len(history) : id \in _extract_tickets(history[k].message)}

\* The ids that '#'-references of the message yield (pattern 2 alone).
HashIds(m) == {Normalize(g) : g \in Range(findall(TICKET_PATTERNS[2], m, 1))}

\* The GH-<digits> and FIX-<digits> references of a message, as <<start, end>>.
RefTokens(m) == {pe \in (1..Len(m)) \X (1..(Len(m) + 1)) : \E n \in {3, 4} : MatchEnd(TICKET_PATTERNS[n], m, pe[1]) = pe[2]}

\* C1: a reference GH-<digits> or FIX-<digits> is returned verbatim by
\* _extract_tickets and contributes no other id (the id '#'<digits> is in the
\* result only when the message also holds a '#<digits>' reference), so a
\* single commit whose message is just that reference gives a board of exactly
\* one ticket.
C1_RefVerbatimAndAlone ==
    pc = "done" =>
        \A k \in 1..Len(history) :
            LET m == history[k].message
            IN  \A pe \in RefTokens(m) :
                    LET ref == SubSeq(m, pe[1], pe[2] - 1)
                        digits == SubSeq(m, pe[2] - RunLen(m, LitStart(TICKET_PATTERNS[1], m, pe[1]) + 1, DigitChars), pe[2] - 1)
                    IN  /\ ref \in _extract_tickets(m)
                        /\ (<<"#">> \o digits) \in _extract_tickets(m) => (<<"#">> \o digits) \in HashIds(m)
                        /\ (Len(history) = 1 /\ ref = m) => (Len(board) = 1 /\ board[1].id = m)

\* C2: the board holds each ticket id at most once, every id a message
\* yields is on it, and the ticket's commit_count is the number of commits
\* whose message yields the id.
C2_UniqueIdsMergedCounts ==
    pc = "done" =>
        /\ \A a, b \in 1..Len(board) : board[a].id = board[b].id => a = b
        /\ \A a \in 1..Len(board) : board[a].commit_count = Cardinality(Associated(board[a].id))
        /\ \A k \in 1..Len(history) : \A id \in _extract_tickets(history[k].message) : \E a \in 1..Len(board) : board[a].id = id

\* A ticket referenced by two commits is on the finished board.
C2_Witness == pc = "done" /\ \E a \in 1..Len(board) : board[a].commit_count = 2 /\ Cardinality(Associated(board[a].id)) = 2

\* The signals of the claim, spelled out.
ClaimDoneSignals == { <<"f", "i", "x", ":">>, <<"f", "i", "x", "e", "s">>, <<"f", "i", "x", "e", "d">>, <<"r", "e", "s", "o", "l", "v", "e">>, <<"r", "e", "s", "o", "l", "v", "e", "d">>, <<"c", "l", "o", "s", "e">>, <<"c", "l", "o", "s", "e", "d">>, <<"c", "o", "m", "p", "l", "e", "t", "e">>, <<"d", "o", "n", "e">>, <<"f", "e", "a", "t", ":">>, <<"f", "e", "a", "t", "u", "r", "e">>, <<"i", "m", "p", "l", "e", "m", "e", "n", "t">>, <<"a", "d", "d", ":">> }

\* Some associated message of the id holds a done or feature signal, in any case of letters.
HasDoneSignal(id) == \E k \in Associated(id) : \E sig \in ClaimDoneSignals : Contains(sig, lower(history[k].message))

\* C3: a discovered ticket is 'Done' exactly when the lower-cased text of its
\* associated messages holds a done or feature signal, and 'In Progress'
\* otherwise (never 'Todo'); 'fix: resolve PROJ-1 bug' followed by
\* 'feat: add PROJ-1 export' gives PROJ-1 the status 'Done'.
C3_StatusDoneIffSignal ==
    pc = "done" =>
        /\ \A a \in 1..Len(board) : board[a].status = (IF HasDoneSignal(board[a].id) THEN "Done" ELSE "In Progress")
        /\ (Len(history) = 2 /\ history[1].message = MsgFix /\ history[2].message = MsgFeat)
               => \E a \in 1..Len(board) : board[a].id = PROJ1 /\ board[a].status = "Done"

\* The scenario of the claim has run: PROJ-1 is on the board as Done.
C3_Witness ==
    /\ pc = "done"
    /\ Len(history) = 2 /\ history[1].message = MsgFix /\ history[2].message = MsgFeat
    /\ \E a \in 1..Len(board) : board[a].id = PROJ1 /\ board[a].status = "Done"

\* min and max of a non-empty set of str
StrMin(S) == CHOOSE x \in S : \A y \in S : ~StrLess(y, x)

StrMax(S) == CHOOSE x \in S : \A y \in S : ~StrLess(x, y)

\* C4: first_seen is the least and last_seen the greatest date (as str) of
\* the commits associated with the ticket, empty dates included.
C4_FirstLastAreMinMax ==
    pc = "done" =>
        \A a \in 1..Len(board) :
            LET dates == {history[k].date : k \in Associated(board[a].id)}
            IN  board[a].first_seen = StrMin(dates) /\ board[a].last_seen = StrMax(dates)

\* C5: the assignee is the author of the first commit, in input order, that
\* references the ticket, and the contributors are the authors of the
\* associated commits.
C5_AssigneeIsFirstAuthor ==
    pc = "done" =>
        \A a \in 1..Len(board) :
            LET assoc == Associated(board[a].id)
                first == CHOOSE k \in assoc : \A j \in assoc : k <= j
            IN  /\ board[a].assignee = history[first].author
                /\ Range(board[a].contributors) = {history[k].author : k \in assoc}

\* The ids a board reports with a status.
IdsWith(b, status) == {b[k].id : k \in {n \in 1..Len(b) : b[n].status = status}}

\* C28: Done is absorbing as commits are appended: every ticket that
\* discover_tickets reports as Done for a prefix S of the batch is reported
\* as Done for the whole batch S followed by T (a ticket may go from In
\* Progress to Done, never back).  S and T are not empty: for an empty S
\* or T there is nothing to show.
C28_DoneIsAbsorbing ==
    pc = "done" =>
        \A n \in 1..(Len(history) - 1) :
            \A before \in discover_tickets(SubSeq(history, 1, n)) :
                IdsWith(before, "Done") \subseteq IdsWith(board, "Done")

\* PROJ-1 was Done after the fix and is Done after a wip commit on it.
C28_Witness ==
    /\ pc = "done"
    /\ Len(history) = 2
    /\ history[1].message = MsgFix
    /\ history[2].message = MsgWip
    /\ \A before \in discover_tickets(SubSeq(history, 1, 1)) : IdsWith(before, "Done") = {PROJ1}
    /\ PROJ1 \in IdsWith(board, "Done")

\* Batches of commits on PROJ-1 and #7 (wip), with and without a date, and
\* of a commit on GH-12 and #12.
DatedCommits ==
    {[hash |-> SomeHash, author |-> "alice", date |-> d, message |-> MsgWip, diff |-> NoDiff] : d \in BoardDates}
    \cup {[hash |-> SomeHash, author |-> "alice", date |-> DateMorning, message |-> MsgCloseGH, diff |-> NoDiff]}

InitDates ==
    /\ op = "discover_tickets"
    /\ history \in SeqUpTo(DatedCommits, MaxDatedCommits)
    /\ board_in = <<>>
    /\ sprint_days = 14
    /\ days_elapsed = 7
    /\ pc = "scan"
    /\ i = 1
    /\ SingleCall
    /\ IdleWebhook
    /\ ticket_ids = <<>>
    /\ ticket_data = <<>>
    /\ board = <<>>
    /\ IdleDebt
    /\ IdleHealth
    /\ IdleForecast

SpecDates == InitDates /\ [][NextBoard]_vars

\* The dates of the commits processed so far that are associated with the id.
DatesSeen(id) == {history[k].date : k \in {n \in Associated(id) : n < i}}

\* C29: after every processed commit, and on the board returned, every
\* ticket has first_seen <= last_seen as strings, and both are dates of
\* commits associated with the ticket.
C29_FirstNotAfterLast ==
    /\ \A k \in 1..Len(ticket_data) :
           /\ ~StrLess(ticket_data[k].last_seen, ticket_data[k].first_seen)
           /\ ticket_data[k].first_seen \in DatesSeen(ticket_data[k].id)
           /\ ticket_data[k].last_seen \in DatesSeen(ticket_data[k].id)
    /\ \A a \in 1..Len(board) :
           /\ ~StrLess(board[a].last_seen, board[a].first_seen)
           /\ board[a].first_seen \in DatesSeen(board[a].id)
           /\ board[a].last_seen \in DatesSeen(board[a].id)

\* A ticket seen at night, then without a date, then in the morning:
\* first_seen is the morning, after the empty date made it unset.
C29_Witness ==
    /\ pc = "done"
    /\ Len(history) = 3
    /\ history[1].date = DateNight /\ history[2].date = EmptyDate /\ history[3].date = DateMorning
    /\ \A k \in 1..3 : history[k].message = MsgWip
    /\ \E a \in 1..Len(board) : board[a].id = PROJ1 /\ board[a].first_seen = DateMorning /\ board[a].last_seen = DateNight

-----------------------------------------------------------------------------
(* debt_sentinel.py                                                        *)

\* DEBT_SIGNALS, in the order of the dict.
DEBT_SIGNALS ==
    << [signal |-> <<"t", "o", "d", "o">>, weight |-> 2],
       [signal |-> <<"h", "o", "t", "f", "i", "x">>, weight |-> 3],
       [signal |-> <<"w", "o", "r", "k", "a", "r", "o", "u", "n", "d">>, weight |-> 3],
       [signal |-> <<"t", "e", "m", "p">>, weight |-> 1],
       [signal |-> <<"d", "e", "p", "r", "e", "c", "a", "t", "e", "d">>, weight |-> 2],
       [signal |-> <<"h", "a", "r", "d", "c", "o", "d", "e">>, weight |-> 2] >>

\* The end (exclusive) of the match of [+-]{3}\s[ab]/(.+) at position p of
\* the diff, 0 when it does not match there.  "." matches every character
\* but the newline, and .+ is greedy: the group runs to the end of the line.
HeaderEnd(s, p) ==
    LET rest == RunLen(s, p + 6, Range(CodeOrder) \ {"\n"})
    IN  IF /\ p + 6 <= Len(s)
           /\ \A k \in p..(p + 2) : s[k] \in {"+", "-"}
           /\ s[p + 3] \in SpaceChars
           /\ s[p + 4] \in {"a", "b"}
           /\ s[p + 5] = "/"
           /\ rest >= 1
        THEN p + 6 + rest ELSE 0

\* files_changed = re.findall(r'[+-]{3}\s[ab]/(.+)', diff)
RECURSIVE files_changed(_, _)
files_changed(diff, p) ==
    IF p > Len(diff) THEN <<>>
    ELSE LET e == HeaderEnd(diff, p)
         IN  IF e > 0 THEN <<SubSeq(diff, p + 6, e - 1)>> \o files_changed(diff, e)
             ELSE files_changed(diff, p + 1)

\* file_hotspots[f] += 1 on the Counter
CountFile(hotspots, f) ==
    IF \E k \in 1..Len(hotspots) : hotspots[k].file = f
    THEN [k \in 1..Len(hotspots) |-> IF hotspots[k].file = f THEN [hotspots[k] EXCEPT !.count = @ + 1] ELSE hotspots[k]]
    ELSE Append(hotspots, [file |-> f, count |-> 1])

\* for f in files_changed: file_hotspots[f] += 1
RECURSIVE CountFiles(_, _)
CountFiles(hotspots, files) ==
    IF files = <<>> THEN hotspots
    ELSE CountFiles(CountFile(hotspots, Head(files)), Tail(files))

\* diff.split('\n')
RECURSIVE Split(_)
Split(s) ==
    IF \E k \in 1..Len(s) : s[k] = "\n"
    THEN LET n == CHOOSE k \in 1..Len(s) : s[k] = "\n" /\ \A j \in 1..(k - 1) : s[j] # "\n"
         IN  <<SubSeq(s, 1, n - 1)>> \o Split(SubSeq(s, n + 1, Len(s)))
    ELSE <<s>>

NewCodeIn == <<"N", "e", "w", " ", "c", "o", "d", "e", " ", "i", "n", " ">>

\* The items one text gives: one per signal of DEBT_SIGNALS found in it.
RECURSIVE SignalItems(_, _, _, _)
SignalItems(text, source, commit, k) ==
    IF k > Len(DEBT_SIGNALS) THEN <<>>
    ELSE (IF Contains(DEBT_SIGNALS[k].signal, text)
          THEN << [signal |-> DEBT_SIGNALS[k].signal, weight |-> DEBT_SIGNALS[k].weight, source |-> source, author |-> commit.author, hash |-> ShortHash(commit)] >>
          ELSE <<>>) \o SignalItems(text, source, commit, k + 1)

\* Every line that starts with '+', the '+++' header too.
IsPlusLine(line) == StartsWith(line, <<"+">>)

\* line.startswith('+') and not line.startswith('+++')
IsAddedLine(line) == StartsWith(line, <<"+">>) /\ ~StartsWith(line, <<"+", "+", "+">>)

\* Scan diffs for inline debt markers (lines 54-65).
RECURSIVE LineItems(_, _)
LineItems(lines, commit) ==
    IF lines = <<>> THEN <<>>
    ELSE (IF IsAddedLine(Head(lines))
          THEN SignalItems(lower(Head(lines)), NewCodeIn \o ShortHash(commit), commit, 1)
          ELSE <<>>) \o LineItems(Tail(lines), commit)

\* The items of one commit: from the message (lines 43-51), then from the diff.
CommitItems(commit) == SignalItems(lower(commit.message), commit.message, commit, 1) \o LineItems(Split(commit.diff), commit)

\* Hotspot penalty with "more than 3 times" read literally.
hotspot_penalty_strict(hotspots) == Cardinality({k \in 1..Len(hotspots) : hotspots[k].count > 3}) * 5

\* hotspot_penalty = sum(1 for count in hotspots.values() if count >= 3) * 5
hotspot_penalty(hotspots) == Cardinality({k \in 1..Len(hotspots) : hotspots[k].count >= 3}) * 5

\* total_weight = sum(item['weight'] for item in debt_items)
RECURSIVE total_weight(_)
total_weight(items) == IF items = <<>> THEN 0 ELSE Head(items).weight + total_weight(Tail(items))

\* The score with the hotspot penalty taken off.
debt_score_net(items, hotspots) == total_weight(items) - hotspot_penalty(hotspots)

\* return total_weight + hotspot_penalty (lines 71-77)
debt_score(items, hotspots) == total_weight(items) + hotspot_penalty(hotspots)

\* analyze_diffs over a batch: the loop of lines 33-65 from the state
\* <<items, hotspots>>.
RECURSIVE analyze_diffs(_, _, _)
analyze_diffs(commits, items, hotspots) ==
    IF commits = <<>> THEN [debt_items |-> items, file_hotspots |-> hotspots]
    ELSE analyze_diffs(Tail(commits), items \o CommitItems(Head(commits)),
                       CountFiles(hotspots, files_changed(Head(commits).diff, 1)))

\* The score calculate_debt_score returns for a batch.
calculate_debt_score(commits) ==
    LET found == analyze_diffs(commits, <<>>, <<>>)
    IN  debt_score(found.debt_items, found.file_hotspots)

\* Hotspots from three changes on only.
critical_hotspots_from_3(hotspots) == SelectSeq(hotspots, LAMBDA h : h.count >= 3)

\* critical_hotspots = {f: c for f, c in hotspots.items() if c >= 2}
critical_hotspots(hotspots) == SelectSeq(hotspots, LAMBDA h : h.count >= 2)

\* The REFACTOR tickets (lines 86-94).  title and description are formatted
\* from the file and the count, kept as subject and count.
HotspotTickets(hotspots) ==
    LET critical == critical_hotspots(hotspots)
    IN  [k \in 1..Len(critical) |->
            [type |-> "REFACTOR", subject |-> critical[k].file, count |-> critical[k].count,
             priority |-> IF critical[k].count >= 3 THEN "High" ELSE "Medium"]]

\* signal_counts = Counter(item['signal'] for item in debt_items), in
\* insertion order
RECURSIVE signal_counts(_, _)
signal_counts(items, counts) ==
    IF items = <<>> THEN counts
    ELSE signal_counts(Tail(items),
             IF \E k \in 1..Len(counts) : counts[k].signal = Head(items).signal
             THEN [k \in 1..Len(counts) |-> IF counts[k].signal = Head(items).signal THEN [counts[k] EXCEPT !.count = @ + 1] ELSE counts[k]]
             ELSE Append(counts, [signal |-> Head(items).signal, count |-> 1]))

\* self.DEBT_SIGNALS[signal]
SignalWeight(signal) == DEBT_SIGNALS[CHOOSE k \in 1..Len(DEBT_SIGNALS) : DEBT_SIGNALS[k].signal = signal].weight

\* The TECH_DEBT tickets (lines 98-106).
SignalTickets(counts) ==
    LET repeated == SelectSeq(counts, LAMBDA c : c.count >= 2)
    IN  [k \in 1..Len(repeated) |->
            [type |-> "TECH_DEBT", subject |-> repeated[k].signal, count |-> repeated[k].count,
             priority |-> IF SignalWeight(repeated[k].signal) >= 3 THEN "High" ELSE "Medium"]]

\* The tickets generate_refactor_tickets returns for a batch (lines 81-108).
generate_refactor_tickets(commits) ==
    LET found == analyze_diffs(commits, <<>>, <<>>)
    IN  HotspotTickets(found.file_hotspots) \o SignalTickets(signal_counts(found.debt_items, <<>>))

MsgHotfix == <<"H", "o", "t", "f", "i", "x", ":", " ", "t", "e", "m", "p", " ", "w", "o", "r", "k", "a", "r", "o", "u", "n", "d">>

DiffBoth == <<"-", "-", "-", " ", "a", "/", "f", "\n", "+", "+", "+", " ", "b", "/", "f", "\n", "+", "#", " ", "T", "O", "D", "O", " ", "x", "\n", "-", "t", "e", "m", "p">>

DiffPlus == <<"+", "+", "+", " ", "b", "/", "f", "\n", "+", "h", "o", "t", "f", "i", "x", "\n", "+", "h", "o", "t", "f", "i", "x">>

DiffOther == <<"+", "+", "+", " ", "b", "/", "g", "\n", " ", "t", "o", "d", "o">>

DebtMessages == {MsgWip, MsgHotfix}

DiffHeader == <<"+", "+", "+", " ", "b", "/", "t", "e", "m", "p", "\n", "+", "x">>

DiffOne == <<"+", "+", "+", " ", "b", "/", "f", "\n", "+", "h", "o", "t", "f", "i", "x">>

DebtDiffs == {NoDiff, DiffBoth, DiffPlus, DiffOther, DiffHeader, DiffOne}

DebtCommits == {[hash |-> SomeHash, author |-> "alice", date |-> DateMorning, message |-> m, diff |-> d] : m \in DebtMessages, d \in DebtDiffs}

IdleBoard == ticket_ids = <<>> /\ ticket_data = <<>> /\ board = <<>>

InitDebt ==
    /\ op \in {"calculate_debt_score", "generate_refactor_tickets"}
    /\ history \in SeqUpTo(DebtCommits, MaxDebtCommits)
    /\ board_in = <<>>
    /\ sprint_days = 14
    /\ days_elapsed = 7
    /\ pc = "analyze"
    /\ i = 1
    /\ debt_items = <<>>
    /\ file_hotspots = <<>>
    /\ score = 0
    /\ refactor_tickets = <<>>
    /\ IdleBoard
    /\ IdleHealth
    /\ IdleForecast
    /\ SingleCall
    /\ IdleWebhook

\* The iteration with the lower-cased message written back into the commit
\* record.
AnalyzeCommitInPlace ==
    /\ pc = "analyze"
    /\ i <= Len(history)
    /\ file_hotspots' = CountFiles(file_hotspots, files_changed(history[i].diff, 1))
    /\ debt_items' = debt_items \o CommitItems(history[i])
    /\ history' = [history EXCEPT ![i].message = lower(@)]
    /\ i' = i + 1
    /\ UNCHANGED <<op, board_in, sprint_days, days_elapsed, calls, webhookVars, pc, score, refactor_tickets, boardVars, forecastVars, healthVars>>

\* One iteration of "for commit in self.history" of analyze_diffs (lines 33-65).
AnalyzeCommit ==
    /\ pc = "analyze"
    /\ i <= Len(history)
    /\ file_hotspots' = CountFiles(file_hotspots, files_changed(history[i].diff, 1))
    /\ debt_items' = debt_items \o CommitItems(history[i])
    /\ i' = i + 1
    /\ UNCHANGED <<inputVars, calls, webhookVars, pc, score, refactor_tickets, boardVars, forecastVars, healthVars>>

\* analyze_diffs returns and calculate_debt_score computes the score (lines 67-77).
CalculateDebtScore ==
    /\ pc = "analyze"
    /\ i > Len(history)
    /\ score' = debt_score(debt_items, file_hotspots)
    /\ pc' = IF op = "generate_refactor_tickets" THEN "tickets" ELSE "done"
    /\ UNCHANGED <<inputVars, calls, webhookVars, i, debt_items, file_hotspots, refactor_tickets, boardVars, forecastVars, healthVars>>

\* The rest of generate_refactor_tickets, after its call of
\* calculate_debt_score (lines 82-108).
GenerateRefactorTickets ==
    /\ pc = "tickets"
    /\ refactor_tickets' = HotspotTickets(file_hotspots) \o SignalTickets(signal_counts(debt_items, <<>>))
    /\ pc' = "done"
    /\ UNCHANGED <<inputVars, calls, webhookVars, i, debt_items, file_hotspots, score, boardVars, forecastVars, healthVars>>

NextDebt == AnalyzeCommit \/ CalculateDebtScore \/ GenerateRefactorTickets

SpecDebt == InitDebt /\ [][NextDebt]_vars

-----------------------------------------------------------------------------
(* Properties of the debt sentinel.                                        *)

\* The weight table of the claim.
ClaimWeight(signal) ==
    CASE signal = <<"t", "o", "d", "o">> -> 2
      [] signal = <<"h", "o", "t", "f", "i", "x">> -> 3
      [] signal = <<"w", "o", "r", "k", "a", "r", "o", "u", "n", "d">> -> 3
      [] signal = <<"t", "e", "m", "p">> -> 1
      [] signal = <<"d", "e", "p", "r", "e", "c", "a", "t", "e", "d">> -> 2
      [] signal = <<"h", "a", "r", "d", "c", "o", "d", "e">> -> 2

RECURSIVE ClaimWeightSum(_)
ClaimWeightSum(items) == IF items = <<>> THEN 0 ELSE ClaimWeight(Head(items).signal) + ClaimWeightSum(Tail(items))

CommitsTouching(f) == {k \in 1..Len(history) : f \in Range(files_changed(history[k].diff, 1))}

\* C7: a file is counted once per commit that changes it: its hotspot count
\* is the number of commits whose diff lists it, also when a diff carries
\* both the '--- a/' and the '+++ b/' header of the file.
C7_HotspotOncePerCommit ==
    pc = "done" =>
        \A k \in 1..Len(file_hotspots) : file_hotspots[k].count = Cardinality(CommitsTouching(file_hotspots[k].file))

\* The signals of the claim's table.
ClaimSignals == {<<"t", "o", "d", "o">>, <<"h", "o", "t", "f", "i", "x">>, <<"w", "o", "r", "k", "a", "r", "o", "u", "n", "d">>, <<"t", "e", "m", "p">>, <<"d", "e", "p", "r", "e", "c", "a", "t", "e", "d">>, <<"h", "a", "r", "d", "c", "o", "d", "e">>}

\* The added lines of the diffs, as <<commit, line number>>: lines that begin
\* with '+' but not with '+++'.
AddedLines ==
    UNION {{<<k, l>> : l \in {n \in 1..Len(Split(history[k].diff)) :
                LET line == Split(history[k].diff)[n]
                IN  Len(line) >= 1 /\ line[1] = "+" /\ ~(Len(line) >= 3 /\ line[2] = "+" /\ line[3] = "+")}} : k \in 1..Len(history)}

\* The items emitted for a signal from diff lines and from messages.
LineItemsOf(sig) == {n \in 1..Len(debt_items) : debt_items[n].signal = sig /\ StartsWith(debt_items[n].source, NewCodeIn)}

MessageItemsOf(sig) == {n \in 1..Len(debt_items) : debt_items[n].signal = sig /\ ~StartsWith(debt_items[n].source, NewCodeIn)}

\* C20: when analyze_diffs is over, the items from diff text are one per
\* (added line, signal) with the signal in the lower-cased line, the items
\* from messages one per (commit, signal) with the signal in the lower-cased
\* message, and there is no other item: removed, context and header lines
\* give none.
C20_ItemsFromAddedLinesOnly ==
    pc \in {"tickets", "done"} /\ op \in {"calculate_debt_score", "generate_refactor_tickets"} =>
        /\ \A n \in 1..Len(debt_items) : debt_items[n].signal \in ClaimSignals
        /\ \A sig \in ClaimSignals :
            /\ Cardinality(LineItemsOf(sig)) = Cardinality({kl \in AddedLines : Contains(sig, lower(Split(history[kl[1]].diff)[kl[2]]))})
            /\ Cardinality(MessageItemsOf(sig)) = Cardinality({k \in 1..Len(history) : Contains(sig, lower(history[k].message))})

\* A diff with a removed line naming temp, a header of the file temp and an
\* added TODO line gave the todo item alone.
C20_Witness ==
    /\ pc = "done"
    /\ Len(history) = 2
    /\ history[1].diff = DiffBoth /\ history[1].message = MsgWip
    /\ history[2].diff = DiffHeader /\ history[2].message = MsgWip
    /\ Len(debt_items) = 1
    /\ debt_items[1].signal = <<"t", "o", "d", "o">>

\* The tickets of a type about a subject (a file or a signal).
TicketsAbout(type, subject) == {n \in 1..Len(refactor_tickets) : refactor_tickets[n].type = type /\ refactor_tickets[n].subject = subject}

\* The number of items emitted for a signal.
Occurrences(sig) == Cardinality({n \in 1..Len(debt_items) : debt_items[n].signal = sig})

Hotfix == <<"h", "o", "t", "f", "i", "x">>

\* C21: generate_refactor_tickets returns one REFACTOR ticket per file with
\* hotspot count >= 2 (High iff the count is >= 3, else Medium), one
\* TECH_DEBT ticket per signal with at least 2 items (High iff its weight
\* is >= 3, else Medium), and no other ticket; a batch whose items are 3
\* hotfix occurrences, with no file at count >= 3, gives score 9 and one
\* TECH_DEBT ticket, High, for hotfix.
C21_RefactorTickets ==
    pc = "done" /\ op = "generate_refactor_tickets" =>
        /\ \A k \in 1..Len(file_hotspots) :
               LET about == TicketsAbout("REFACTOR", file_hotspots[k].file)
               IN  IF file_hotspots[k].count >= 2
                   THEN /\ Cardinality(about) = 1
                        /\ \A n \in about : refactor_tickets[n].priority = (IF file_hotspots[k].count >= 3 THEN "High" ELSE "Medium")
                   ELSE about = {}
        /\ \A sig \in ClaimSignals :
               LET about == TicketsAbout("TECH_DEBT", sig)
               IN  IF Occurrences(sig) >= 2
                   THEN /\ Cardinality(about) = 1
                        /\ \A n \in about : refactor_tickets[n].priority = (IF ClaimWeight(sig) >= 3 THEN "High" ELSE "Medium")
                   ELSE about = {}
        /\ Len(refactor_tickets) = Cardinality({k \in 1..Len(file_hotspots) : file_hotspots[k].count >= 2})
                                    + Cardinality({sig \in ClaimSignals : Occurrences(sig) >= 2})
        /\ \A n \in 1..Len(refactor_tickets) : refactor_tickets[n].type \in {"REFACTOR", "TECH_DEBT"}
        /\ (/\ Len(debt_items) = 3
            /\ Occurrences(Hotfix) = 3
            /\ \A k \in 1..Len(file_hotspots) : file_hotspots[k].count < 3)
           => /\ score = 9
              /\ Cardinality({n \in 1..Len(refactor_tickets) : refactor_tickets[n].type = "TECH_DEBT"}) = 1
              /\ \A n \in TicketsAbout("TECH_DEBT", Hotfix) : refactor_tickets[n].priority = "High"

\* Three hotfix lines, one file changed twice: score 9, a Medium REFACTOR
\* ticket and the High TECH_DEBT ticket for hotfix.
C21_Witness ==
    /\ pc = "done" /\ op = "generate_refactor_tickets"
    /\ Len(debt_items) = 3 /\ Occurrences(Hotfix) = 3
    /\ score = 9
    /\ Len(refactor_tickets) = 2
    /\ refactor_tickets[1].type = "REFACTOR" /\ refactor_tickets[1].priority = "Medium"
    /\ refactor_tickets[2].type = "TECH_DEBT" /\ refactor_tickets[2].priority = "High"

\* C22: the debt score is never negative, and the score of a batch B + [c]
\* is at least the score of B (the batch without its last commit):
\* appending a commit never lowers the score.
C22_ScoreMonotone ==
    pc = "done" =>
        /\ score = calculate_debt_score(history)
        /\ score >= 0
        /\ history # <<>> =>
               LET before == calculate_debt_score(SubSeq(history, 1, Len(history) - 1))
               IN  score >= before /\ before >= 0

\* A first commit without items, a second that added items, and a third
\* that took a file to count 3 and raised the score.
C22_Witness ==
    /\ pc = "done"
    /\ Len(history) = 3
    /\ calculate_debt_score(SubSeq(history, 1, 1)) = 0
    /\ calculate_debt_score(SubSeq(history, 1, 2)) > 0
    /\ hotspot_penalty(analyze_diffs(SubSeq(history, 1, 2), <<>>, <<>>).file_hotspots) = 0
    /\ hotspot_penalty(file_hotspots) = 5
    /\ score > calculate_debt_score(SubSeq(history, 1, 2))

-----------------------------------------------------------------------------
(* velocity.py                                                             *)

\* int(s) for a str of digits
RECURSIVE DigitsValue(_)
DigitsValue(s) == IF s = <<>> THEN 0 ELSE DigitsValue(SubSeq(s, 1, Len(s) - 1)) * 10 + (Ord(s[Len(s)]) - Ord("0"))

\* "%Y-%m-%dT%H:%M:%SZ": directives and literal characters.
DateFormat == <<"%Y", "-", "%m", "-", "%d", "T", "%H", ":", "%M", ":", "%S", "Z">>

\* The number of digits a directive takes: %Y is \d\d\d\d, the others take one
\* or two digits.  Each is followed by a literal that is no digit, so the
\* directive takes the whole run of digits.
Widths(f) == IF f = "%Y" THEN {4} ELSE {1, 2}

\* The values the regular expression of a directive accepts.
Accepts(f, v) ==
    CASE f = "%Y" -> TRUE
      [] f = "%m" -> v \in 1..12
      [] f = "%d" -> v \in 1..31
      [] f = "%H" -> v \in 0..23
      [] f = "%M" -> v \in 0..59
      [] f = "%S" -> v \in 0..61

\* The fields of s by the format from directive k on, s read from position p;
\* <<-1>> when s does not match (time.strptime raises ValueError).  Literals
\* are compared ignoring case, %d also takes a space and one digit, and the
\* whole of s must be consumed.
RECURSIVE ScanDate(_, _, _)
ScanDate(s, p, k) ==
    IF k > Len(DateFormat) THEN (IF p = Len(s) + 1 THEN <<>> ELSE <<-1>>)
    ELSE LET f == DateFormat[k]
         IN  IF Len(f) = 2
             THEN LET pad == IF f = "%d" /\ p <= Len(s) /\ s[p] = " " THEN 1 ELSE 0
                      n == RunLen(s, p + pad, DigitChars)
                      v == DigitsValue(SubSeq(s, p + pad, p + pad + n - 1))
                  IN  IF n \in Widths(f) /\ Accepts(f, v) /\ (pad = 1 => n = 1)
                      THEN LET rest == ScanDate(s, p + pad + n, k + 1)
                           IN  IF rest = <<-1>> THEN rest ELSE <<v>> \o rest
                      ELSE <<-1>>
             ELSE IF p <= Len(s) /\ LowerChar(s[p]) = LowerChar(f) THEN ScanDate(s, p + 1, k + 1)
             ELSE <<-1>>

IsLeap(y) == (y % 4 = 0 /\ y % 100 # 0) \/ y % 400 = 0

DaysInMonth(y, mo) == IF mo = 2 THEN (IF IsLeap(y) THEN 29 ELSE 28) ELSE IF mo \in {4, 6, 9, 11} THEN 30 ELSE 31

\* datetime.strptime(date, "%Y-%m-%dT%H:%M:%SZ"): ok is FALSE when it raises
\* (no match, or a year, day or second datetime() refuses).
strptime(date) ==
    LET v == ScanDate(date, 1, 1)
    IN  IF v = <<-1>> THEN [ok |-> FALSE, year |-> 0, month |-> 0, day |-> 0, hour |-> 0]
        ELSE [ok |-> v[1] >= 1 /\ v[3] <= DaysInMonth(v[1], v[2]) /\ v[6] <= 59,
              year |-> v[1], month |-> v[2], day |-> v[3], hour |-> v[4]]

\* The decimal digits of v, zero-padded to width w.
RECURSIVE Padded(_, _)
Padded(v, w) == IF w = 0 THEN <<>> ELSE Padded(v \div 10, w - 1) \o <<Digits[(v % 10) + 1]>>

\* dt.strftime("%Y-%m-%d")
day_key(dt) == Padded(dt.year, 4) \o <<"-">> \o Padded(dt.month, 2) \o <<"-">> \o Padded(dt.day, 2)

\* d[key] += 1 on a defaultdict(int), kept in insertion order
CountKey(d, key) ==
    IF \E k \in 1..Len(d) : d[k].key = key
    THEN [d EXCEPT ![CHOOSE k \in 1..Len(d) : d[k].key = key] = [@ EXCEPT !.count = @ + 1]]
    ELSE Append(d, [key |-> key, count |-> 1])

\* 2^e mod d
RECURSIVE PowMod2(_, _)
PowMod2(e, d) == IF e = 0 THEN 1 % d ELSE (2 * PowMod2(e - 1, d)) % d

\* The k with 2^k <= n/d < 2^(k+1) is FloorLog2Up(n, d, 0) when n >= d and
\* -FloorLog2Down(n, d, 0) when n < d (n > 0).
RECURSIVE FloorLog2Up(_, _, _)
FloorLog2Up(n, d, k) == IF n >= 2 * d THEN FloorLog2Up(n, 2 * d, k + 1) ELSE k

RECURSIVE FloorLog2Down(_, _, _)
FloorLog2Down(n, d, k) == IF n < d THEN FloorLog2Down(2 * n, d, k + 1) ELSE k

\* The sign of fl(n/d) - n/d for the double fl(n/d) nearest to n/d (n, d > 0):
\* the 53-bit significand is n * 2^e / d rounded to an integer, with
\* e = 52 - floor(log2(n/d)); its discarded fraction is (n * 2^e mod d) / d.
QuotientError(n, d) ==
    LET e == IF n >= d THEN 52 - FloorLog2Up(n, d, 0) ELSE 52 + FloorLog2Down(n, d, 0)
        r == ((n % d) * PowMod2(e, d)) % d
    IN  IF r = 0 THEN 0 ELSE IF 2 * r > d THEN 1 ELSE -1

\* round(n / d, 2) in hundredths.  round() rounds the exact binary value of the
\* double half to even: off a decimal tie the double lies on the side of n/d
\* (for 200 * n < 2^53); on a tie the error of the division decides.
RoundHundredths(n, d) ==
    LET q == (100 * n) \div d
        r == (100 * n) % d
    IN  IF 2 * r < d THEN q
        ELSE IF 2 * r > d THEN q + 1
        ELSE IF QuotientError(n, d) = 0 THEN (IF q % 2 = 0 THEN q ELSE q + 1)
        ELSE IF QuotientError(n, d) > 0 THEN q + 1
        ELSE q

\* round(n / d * 100, 1) in tenths.  A decimal tie needs 16 | d; for the
\* d <= 33 of this model the tied values (d = 16, 32) are exact doubles and
\* round half to even.
RoundTenths(n, d) ==
    LET q == (1000 * n) \div d
        r == (1000 * n) % d
    IN  IF 2 * r < d THEN q
        ELSE IF 2 * r > d THEN q + 1
        ELSE IF q % 2 = 0 THEN q ELSE q + 1

\* round(avg_daily, 2) with avg_daily = len(self.history) / max(days_elapsed, 1),
\* in hundredths
avg_daily(commits, elapsed) == RoundHundredths(Len(commits), IF elapsed > 1 THEN elapsed ELSE 1)

\* sum(1 for t in self.board if t['status'] == status)
CountStatus(tickets, status) == Cardinality({k \in 1..Len(tickets) : tickets[k].status = status})

\* on_track with the threshold dropped: completion_rate >= expected_rate
OnTrackNoThreshold(done, total, elapsed, sprint) == IF total > 0 THEN done * sprint >= elapsed * total ELSE elapsed <= 0

\* completion_rate >= expected_rate * 0.7 for sprint > 0, on the rationals
\* 100 * done / total (0 when total = 0) and 100 * elapsed / sprint.  The
\* doubles of the code give the same truth value for every total <= 12 and
\* sprint, elapsed <= 33 (beyond that the roundings of the three products can
\* turn an exact equality into "less", as for 7 of 13 done on day 10 of 13).
OnTrack(done, total, elapsed, sprint) == IF total > 0 THEN 10 * done * sprint >= 7 * elapsed * total ELSE elapsed <= 0

\* An empty board taken as complete.
completion_rate_empty_complete(done, total) == IF total > 0 THEN RoundTenths(done, total) ELSE 1000

\* completion_rate = (done / total * 100) if total > 0 else 0, rounded as
\* returned (line 56), in tenths
completion_rate(done, total) == IF total > 0 THEN RoundTenths(done, total) ELSE 0

\* get_ticket_progress for sprint > 0.  The rates are kept in tenths.
get_ticket_progress(tickets, elapsed, sprint) ==
    LET total == Len(tickets)
        done == CountStatus(tickets, "Done")
    IN  [total |-> total,
         done |-> done,
         in_progress |-> CountStatus(tickets, "In Progress"),
         todo |-> CountStatus(tickets, "Todo"),
         completion_rate |-> completion_rate(done, total),
         expected_rate |-> RoundTenths(elapsed, sprint),
         on_track |-> OnTrack(done, total, elapsed, sprint)]

\* max(...) and min(...) of the per-author counts
MaxCount(d) == CHOOSE c \in {d[k].count : k \in 1..Len(d)} : \A k \in 1..Len(d) : d[k].count <= c

MinCount(d) == CHOOSE c \in {d[k].count : k \in 1..Len(d)} : \A k \in 1..Len(d) : d[k].count >= c

\* The rules with the workload threshold at one half.
RuleFiresAtHalf(rule) ==
    CASE rule = 1 -> ~progress.on_track
      [] rule = 2 -> /\ velocity.author_breakdown # <<>>
                     /\ MaxCount(velocity.author_breakdown) > 0
                     /\ 2 * MinCount(velocity.author_breakdown) < MaxCount(velocity.author_breakdown)
      [] rule = 3 -> velocity.avg_daily < 100 /\ days_elapsed > 2
      [] rule = 4 -> progress.in_progress > progress.done /\ 2 * days_elapsed > sprint_days

\* The conditions of the four rules (lines 71, 83-86, 97, 108).  min/max < 0.3
\* on doubles is 10 * min < 3 * max on the integers; * 0.5 is exact.
RuleFires(rule) ==
    CASE rule = 1 -> ~progress.on_track
      [] rule = 2 -> /\ velocity.author_breakdown # <<>>
                     /\ MaxCount(velocity.author_breakdown) > 0
                     /\ 10 * MinCount(velocity.author_breakdown) < 3 * MaxCount(velocity.author_breakdown)
      [] rule = 3 -> velocity.avg_daily < 100 /\ days_elapsed > 2
      [] rule = 4 -> progress.in_progress > progress.done /\ 2 * days_elapsed > sprint_days

\* A rule that sets MEDIUM without looking at the level reached.
EscalateAlways(level) == "MEDIUM"

\* if risk_level == "LOW": risk_level = "MEDIUM"
Escalate(level) == IF level = "LOW" THEN "MEDIUM" ELSE level

\* The level after a rule, from the level before it.
ApplyRule(rule, level) ==
    IF ~RuleFires(rule) THEN level
    ELSE IF rule = 1 THEN "HIGH"
    ELSE Escalate(level)

\* The risk and the recommendation a rule appends, by kind, with the values
\* its message interpolates.
RiskOf(rule) ==
    CASE rule = 1 -> [kind |-> "behind_schedule", args |-> <<progress.completion_rate, progress.expected_rate, progress.expected_rate - progress.completion_rate>>]
      [] rule = 2 -> [kind |-> "uneven_workload", args |-> <<>>]
      [] rule = 3 -> [kind |-> "low_velocity", args |-> <<velocity.avg_daily>>]
      [] rule = 4 -> [kind |-> "too_many_open", args |-> <<progress.in_progress, progress.done>>]

RecommendationOf(rule) ==
    CASE rule = 1 -> "scope_reduction"
      [] rule = 2 -> "rebalance"
      [] rule = 3 -> "check_blockers"
      [] rule = 4 -> "wip_limits"

\* 'days_remaining': self.sprint_days - self.days_elapsed
days_remaining == sprint_days - days_elapsed

\* The loop of get_commit_velocity over a batch, from the counts
\* <<daily, authors>> (lines 24-31).
RECURSIVE count_commits(_, _, _)
count_commits(commits, daily, authors) ==
    IF commits = <<>> THEN [daily_commits |-> daily, author_commits |-> authors]
    ELSE LET dt == strptime(Head(commits).date)
         IN  IF dt.ok
             THEN count_commits(Tail(commits), CountKey(daily, day_key(dt)), CountKey(authors, Head(commits).author))
             ELSE count_commits(Tail(commits), daily, authors)

\* The dict get_commit_velocity returns for a batch (lines 33-39).
get_commit_velocity(commits, elapsed) ==
    LET counted == count_commits(commits, <<>>, <<>>)
    IN  [total_commits |-> Len(commits),
         avg_daily |-> avg_daily(commits, elapsed),
         daily_breakdown |-> counted.daily_commits,
         author_breakdown |-> counted.author_commits]

\* The loop with the author counted before the date is parsed.
CountCommitAuthorFirst ==
    /\ pc = "velocity"
    /\ i <= Len(history)
    /\ LET dt == strptime(history[i].date)
       IN  /\ author_commits' = CountKey(author_commits, history[i].author)
           /\ daily_commits' = IF dt.ok THEN CountKey(daily_commits, day_key(dt)) ELSE daily_commits
    /\ i' = i + 1
    /\ UNCHANGED <<inputVars, calls, webhookVars, pc, velocity, progress, risk_level, risks, recommendations, boardVars, debtVars, healthVars>>

\* One pass of the loop of get_commit_velocity (lines 24-31): a commit whose
\* date does not parse is skipped by the bare except.
CountCommit ==
    /\ pc = "velocity"
    /\ i <= Len(history)
    /\ LET dt == strptime(history[i].date)
       IN  IF dt.ok
           THEN /\ daily_commits' = CountKey(daily_commits, day_key(dt))
                /\ author_commits' = CountKey(author_commits, history[i].author)
           ELSE UNCHANGED <<daily_commits, author_commits>>
    /\ i' = i + 1
    /\ UNCHANGED <<inputVars, calls, webhookVars, pc, velocity, progress, risk_level, risks, recommendations, boardVars, debtVars, healthVars>>

\* The end of get_commit_velocity (lines 33-39), called at line 63
GetCommitVelocity ==
    /\ pc = "velocity"
    /\ i > Len(history)
    /\ velocity' = [total_commits |-> Len(history),
                    avg_daily |-> avg_daily(history, days_elapsed),
                    daily_breakdown |-> daily_commits,
                    author_breakdown |-> author_commits]
    /\ pc' = "progress"
    /\ UNCHANGED <<inputVars, calls, webhookVars, i, daily_commits, author_commits, progress, risk_level, risks, recommendations, boardVars, debtVars, healthVars>>

\* progress = self.get_ticket_progress() (line 64); the division by
\* sprint_days raises ZeroDivisionError when it is 0.
GetTicketProgress ==
    /\ pc = "progress"
    /\ IF sprint_days = 0
       THEN pc' = "raised" /\ UNCHANGED progress
       ELSE pc' = "rule1" /\ progress' = get_ticket_progress(board_in, days_elapsed, sprint_days)
    /\ UNCHANGED <<inputVars, calls, webhookVars, i, daily_commits, author_commits, velocity, risk_level, risks, recommendations, boardVars, debtVars, healthVars>>

\* One rule of the cascade, then on to the next position.
RuleStep(rule, next) ==
    /\ risk_level' = ApplyRule(rule, risk_level)
    /\ risks' = IF RuleFires(rule) THEN Append(risks, RiskOf(rule)) ELSE risks
    /\ recommendations' = IF RuleFires(rule) THEN Append(recommendations, RecommendationOf(rule)) ELSE recommendations
    /\ pc' = next
    /\ UNCHANGED <<inputVars, calls, webhookVars, i, daily_commits, author_commits, velocity, progress, boardVars, debtVars, healthVars>>

\* Risk: Completion rate is behind schedule (lines 70-80)
RuleBehindSchedule == pc = "rule1" /\ RuleStep(1, "rule2")

\* Risk: Uneven workload distribution (lines 82-94)
RuleUnevenWorkload == pc = "rule2" /\ RuleStep(2, "rule3")

\* Risk: Low velocity in recent activity (lines 96-105)
RuleLowVelocity == pc = "rule3" /\ RuleStep(3, "rule4")

\* Risk: Too many tickets still in progress (lines 107-116), and the return
RuleTooManyOpen == pc = "rule4" /\ RuleStep(4, "done")

NextForecast == CountCommit \/ GetCommitVelocity \/ GetTicketProgress \/ RuleBehindSchedule \/ RuleUnevenWorkload \/ RuleLowVelocity \/ RuleTooManyOpen

\* n copies of x
Repeat(x, n) == [k \in 1..n |-> x]

CommitBy(author, date) == [hash |-> SomeHash, author |-> author, date |-> date, message |-> MsgWip, diff |-> NoDiff]

TicketIn(status) == [id |-> PROJ1, title |-> PROJ1, status |-> status, assignee |-> "alice"]

\* Histories: commits of alice, then at most one of bob, then at most one
\* whose date does not parse.
ForecastHistories == {Repeat(CommitBy("alice", DateMorning), a) \o Repeat(CommitBy("bob", DateNight), b) \o Repeat(CommitBy("bob", DateGarbage), u) : a \in 0..MaxPerAuthor, b \in {0, 1}, u \in {0, 1}}

\* Boards: the Done tickets, then those in progress, then those to do.
ForecastBoards == {Repeat(TicketIn("Done"), k) \o Repeat(TicketIn("In Progress"), m) \o Repeat(TicketIn("Todo"), t) : k \in 0..MaxPerStatus, m \in 0..MaxPerStatus, t \in 0..MaxPerStatus}

ForecastStart ==
    /\ op = "forecast_sprint"
    /\ pc = "velocity"
    /\ i = 1
    /\ daily_commits = <<>>
    /\ author_commits = <<>>
    /\ velocity = <<>>
    /\ progress = <<>>
    /\ risk_level = "LOW"
    /\ risks = <<>>
    /\ recommendations = <<>>
    /\ IdleBoard
    /\ IdleDebt
    /\ IdleHealth
    /\ SingleCall
    /\ IdleWebhook

InitForecast ==
    /\ history \in ForecastHistories
    /\ board_in \in ForecastBoards
    /\ sprint_days \in 0..MaxSprintDays
    /\ days_elapsed \in 0..(MaxSprintDays + 1)
    /\ ForecastStart

SpecForecast == InitForecast /\ [][NextForecast]_vars

\* Boards of up to MaxBoardSize tickets: the Done ones, then the others.
ProgressBoards == {Repeat(TicketIn("Done"), k) \o Repeat(TicketIn(rest), m) : k \in 0..MaxBoardSize, m \in 0..MaxBoardSize, rest \in {"In Progress", "Todo"}} \cap SeqUpTo({TicketIn(st) : st \in {"Done", "In Progress", "Todo"}}, MaxBoardSize)

InitProgress ==
    /\ history \in {<<>>, <<CommitBy("alice", DateMorning)>>}
    /\ board_in \in ProgressBoards
    /\ sprint_days \in 0..MaxProgressDays
    /\ days_elapsed \in 0..MaxProgressDays
    /\ ForecastStart

SpecProgress == InitProgress /\ [][NextForecast]_vars

\* Short and long histories, observed around the day count that equals their length.
InitCadence ==
    /\ \E n \in ((0..3) \cup ((MaxLongHistory - 3)..MaxLongHistory)) : history = Repeat(CommitBy("alice", DateMorning), n)
    /\ days_elapsed \in {d \in (Len(history) - 1)..(Len(history) + 2) : d >= 0}
    /\ sprint_days \in {days_elapsed, days_elapsed + 1}
    /\ board_in \in {<<>>, <<TicketIn("Done")>>}
    /\ ForecastStart

SpecCadence == InitCadence /\ [][NextForecast]_vars

-----------------------------------------------------------------------------
(* Claims about the forecast.                                              *)

\* LOW < MEDIUM < HIGH
RiskRank(level) == CASE level = "LOW" -> 0 [] level = "MEDIUM" -> 1 [] level = "HIGH" -> 2

\* The four rules in every order of evaluation.
AllRuleOrders == Orderings({1, 2, 3, 4})

\* The level after the rules of order are evaluated one after the other.
RECURSIVE FoldRules(_, _)
FoldRules(order, level) == IF order = <<>> THEN level ELSE FoldRules(Tail(order), ApplyRule(Head(order), level))

\* The level the claim states for the outcome of the four conditions.
ClaimedLevel ==
    IF ~progress.on_track THEN "HIGH"
    ELSE IF RuleFires(2) \/ RuleFires(3) \/ RuleFires(4) THEN "MEDIUM"
    ELSE "LOW"

\* C8: within one forecast_sprint call no step lowers risk_level; evaluated in
\* any order the four rules never lower the level and end at the level the
\* call returns, which is HIGH exactly when on_track is false, else MEDIUM
\* exactly when the workload, cadence or WIP rule fires, else LOW.
C8_RiskMonotoneAnyOrder ==
    /\ [][RiskRank(risk_level') >= RiskRank(risk_level)]_vars
    /\ [](pc = "done" =>
            /\ risk_level = ClaimedLevel
            /\ \A order \in AllRuleOrders :
                /\ FoldRules(order, "LOW") = risk_level
                /\ \A k \in 1..4 : RiskRank(FoldRules(SubSeq(order, 1, k), "LOW")) >= RiskRank(FoldRules(SubSeq(order, 1, k - 1), "LOW")))

\* A forecast where the schedule rule set HIGH and a later rule fired as well.
C8_Witness ==
    /\ pc = "done"
    /\ risk_level = "HIGH"
    /\ Len(risks) >= 2
    /\ risks[1].kind = "behind_schedule"

\* Some author of author_breakdown has less than 30% of the commits of
\* another: the minimum count is below 30% of the maximum.
Imbalanced ==
    \E a, b \in 1..Len(velocity.author_breakdown) :
        10 * velocity.author_breakdown[a].count < 3 * velocity.author_breakdown[b].count

\* C23: the workload rule fires exactly when author_breakdown is non-empty
\* and its minimum count is less than 30% of its maximum: then, and only
\* then, the uneven-workload risk and the rebalancing recommendation are in
\* the forecast (once, appended by the rule's step), and then risk_level is
\* at least MEDIUM.
C23_WorkloadRule ==
    /\ [][pc = "rule2" =>
            IF Imbalanced
            THEN /\ risks' = Append(risks, [kind |-> "uneven_workload", args |-> <<>>])
                 /\ recommendations' = Append(recommendations, "rebalance")
                 /\ risk_level' \in {"MEDIUM", "HIGH"}
            ELSE UNCHANGED <<risks, recommendations, risk_level>>]_vars
    /\ [](pc = "done" =>
            /\ Cardinality({k \in 1..Len(risks) : risks[k].kind = "uneven_workload"}) = (IF Imbalanced THEN 1 ELSE 0)
            /\ Cardinality({k \in 1..Len(recommendations) : recommendations[k] = "rebalance"}) = (IF Imbalanced THEN 1 ELSE 0)
            /\ Imbalanced => risk_level \in {"MEDIUM", "HIGH"})

\* Four commits of one author and one of another (25%): the workload rule
\* alone fired and the level is MEDIUM.
C23_Witness ==
    /\ pc = "done"
    /\ Len(velocity.author_breakdown) = 2
    /\ velocity.author_breakdown[1].count = 4
    /\ velocity.author_breakdown[2].count = 1
    /\ risk_level = "MEDIUM"
    /\ Len(risks) = 1 /\ risks[1].kind = "uneven_workload"
    /\ recommendations = <<"rebalance">>

\* The commits of the batch whose timestamp parses.
Parseable == {k \in 1..Len(history) : strptime(history[k].date).ok}

\* The sum of the counts of a breakdown.
RECURSIVE SumCounts(_)
SumCounts(d) == IF d = <<>> THEN 0 ELSE Head(d).count + SumCounts(Tail(d))

\* C24: a commit whose timestamp does not parse makes neither
\* get_commit_velocity nor forecast_sprint fail (the forecast raises only for
\* sprint_days = 0); it is left out of daily_breakdown and author_breakdown
\* and counted in total_commits and avg_daily: both breakdowns sum to the
\* number of commits with a parseable timestamp, which is at most
\* total_commits = len(history), and avg_daily is len(history) /
\* max(days_elapsed, 1) to the hundredth.
C24_UnparseableExcluded ==
    /\ pc = "raised" => sprint_days = 0
    /\ pc \in {"progress", "raised", "rule1", "rule2", "rule3", "rule4", "done"} =>
        LET d == IF days_elapsed > 1 THEN days_elapsed ELSE 1
        IN  /\ velocity.total_commits = Len(history)
            /\ 2 * (velocity.avg_daily * d - 100 * Len(history)) <= d
            /\ 2 * (100 * Len(history) - velocity.avg_daily * d) <= d
            /\ SumCounts(velocity.daily_breakdown) = Cardinality(Parseable)
            /\ SumCounts(velocity.author_breakdown) = Cardinality(Parseable)
            /\ Cardinality(Parseable) <= velocity.total_commits

\* A finished forecast of a batch with parseable commits and one that is not.
C24_Witness ==
    /\ pc = "done"
    /\ Cardinality(Parseable) >= 2
    /\ Cardinality(Parseable) < Len(history)
    /\ SumCounts(velocity.author_breakdown) = Len(history) - 1
    /\ velocity.total_commits = Len(history)

\* The tickets of the board that are Done.
DoneCount == Cardinality({k \in 1..Len(board_in) : board_in[k].status = "Done"})

\* rate (in tenths of a percent) is the tenth nearest to 100 * n / d
NearestTenth(rate, n, d) == 2 * (rate * d - 1000 * n) <= d /\ 2 * (1000 * n - rate * d) <= d

\* done / total as <<numerator, denominator>>, 0 / 1 for an empty board
CompletionRatio == IF Len(board_in) = 0 THEN <<0, 1>> ELSE <<DoneCount, Len(board_in)>>

\* The sprint of the scenario: day 7 of 14, 1 ticket of 10 done.
Scenario == sprint_days = 14 /\ days_elapsed = 7 /\ DoneCount = 1 /\ Len(board_in) = 10

\* C9: once get_ticket_progress has returned, completion_rate is
\* done / total * 100 (to the tenth it is reported in; 0 for an empty board),
\* expected_rate is days_elapsed / sprint_days * 100 (to the tenth), and
\* on_track tells whether done / total * 100 >= 0.7 * days_elapsed /
\* sprint_days * 100; in the scenario the rates are 10.0 and 50.0, on_track is
\* false and the forecast ends with risk_level HIGH.
C9_ProgressRates ==
    pc \in {"rule1", "rule2", "rule3", "rule4", "done"} =>
        /\ progress.total = Len(board_in) /\ progress.done = DoneCount
        /\ IF Len(board_in) = 0 THEN progress.completion_rate = 0
           ELSE NearestTenth(progress.completion_rate, DoneCount, Len(board_in))
        /\ NearestTenth(progress.expected_rate, days_elapsed, sprint_days)
        /\ progress.on_track <=> (10 * CompletionRatio[1] * sprint_days >= 7 * days_elapsed * CompletionRatio[2])
        /\ Scenario =>
            /\ progress.completion_rate = 100
            /\ progress.expected_rate = 500
            /\ ~progress.on_track
            /\ pc = "done" => risk_level = "HIGH"

\* The scenario, forecast to the end.
C9_Witness == pc = "done" /\ Scenario /\ ~progress.on_track /\ risk_level = "HIGH"

\* C10: a forecast with total_commits / max(days_elapsed, 1) < 1.0 and
\* days_elapsed > 2 ends at MEDIUM or HIGH, with the low-velocity risk and the
\* check-for-blockers recommendation.
C10_LowCadenceAlwaysFlagged ==
    (pc = "done" /\ Len(history) < (IF days_elapsed > 1 THEN days_elapsed ELSE 1) /\ days_elapsed > 2) =>
        /\ risk_level \in {"MEDIUM", "HIGH"}
        /\ \E k \in 1..Len(risks) : risks[k].kind = "low_velocity"
        /\ \E k \in 1..Len(recommendations) : recommendations[k] = "check_blockers"

-----------------------------------------------------------------------------
(* predictive.py                                                           *)

\* any(ticket['id'] in c['message'] for c in self.history), ignoring case
match_found_nocase(ticket, commits) == \E k \in 1..Len(commits) : Contains(lower(ticket.id), lower(commits[k].message))

\* match_found = any(ticket['id'] in c['message'] for c in self.history)
match_found(ticket, commits) == \E k \in 1..Len(commits) : Contains(ticket.id, commits[k].message)

\* stalled_tickets after the loop over the board (lines 16-22)
stalled_tickets(tickets, commits) == Cardinality({k \in 1..Len(tickets) : tickets[k].status = "In Progress" /\ ~match_found(tickets[k], commits)})

\* complexity_score after the loop over the history (lines 29-32)
complexity_score(commits) == Cardinality({k \in 1..Len(commits) : Contains(<<"f", "i", "x">>, lower(commits[k].message))})

\* The fix rule firing from 3 fixes on.
fix_density_high_from_3(commits) == complexity_score(commits) >= 3

\* if complexity_score > 3
fix_density_high(commits) == complexity_score(commits) > 3

\* late_commits after the loop over the history (lines 39-47): a date that
\* does not parse is passed over by the bare except.
late_commits(commits) == Cardinality({k \in 1..Len(commits) : strptime(commits[k].date).ok /\ strptime(commits[k].date).hour > 20})

\* score -= n for an int n: the type of score is kept.
Deduct(s, n) == [s EXCEPT !.num = @ - n * s.den]

\* The stalled deduction as 30 per stalled ticket, not divided by the total.
DeductStalledPerTicket(s, stalled, total) == [num |-> s.num * total - 30 * stalled * total * s.den, den |-> s.den * total, float |-> TRUE]

\* score -= (stalled / total) * 30: the result is a float.  The score is kept
\* as the exact fraction num / den; the double of the code is within 2e-14 of
\* it and equal to it whenever the fraction is a whole number (total <= 200).
DeductStalled(s, stalled, total) == [num |-> s.num * total - 30 * stalled * s.den, den |-> s.den * total, float |-> TRUE]

\* max(0, score): the int 0 unless score is greater
Max0(s) == IF s.num > 0 THEN s ELSE [num |-> 0, den |-> 1, float |-> FALSE]

\* calculate_health_score on a board and a batch: the score and the alerts
\* returned (lines 11-53).
calculate_health_score(tickets, commits) ==
    LET stalled == stalled_tickets(tickets, commits)
        fixes == fix_density_high(commits)
        late == late_commits(commits) > 2
        s1 == IF stalled > 0 THEN DeductStalled([num |-> 100, den |-> 1, float |-> FALSE], stalled, Len(tickets))
              ELSE [num |-> 100, den |-> 1, float |-> FALSE]
        s2 == IF fixes THEN Deduct(s1, 15) ELSE s1
        s3 == IF late THEN Deduct(s2, 10) ELSE s2
    IN  [score |-> Max0(s3),
         alerts |-> (IF stalled > 0 THEN << [kind |-> "stalled", args |-> <<stalled>>] >> ELSE <<>>)
                    \o (IF fixes THEN << [kind |-> "bug_fixes", args |-> <<>>] >> ELSE <<>>)
                    \o (IF late THEN << [kind |-> "late_night", args |-> <<>>] >> ELSE <<>>)]

\* 1. stalled tickets (lines 14-26).  stalled_tickets > 0 needs a ticket, so
\* the division is never by zero.
CheckStalled ==
    /\ pc = "stalled"
    /\ LET stalled == stalled_tickets(board_in, history)
       IN  IF stalled > 0
           THEN /\ health_score' = DeductStalled(health_score, stalled, Len(board_in))
                /\ alerts' = Append(alerts, [kind |-> "stalled", args |-> <<stalled>>])
           ELSE UNCHANGED <<health_score, alerts>>
    /\ pc' = "fixes"
    /\ UNCHANGED <<inputVars, calls, webhookVars, i, boardVars, debtVars, forecastVars>>

\* 2. frequency of bug fixes (lines 28-36)
CheckFixes ==
    /\ pc = "fixes"
    /\ IF fix_density_high(history)
       THEN /\ health_score' = Deduct(health_score, 15)
            /\ alerts' = Append(alerts, [kind |-> "bug_fixes", args |-> <<>>])
       ELSE UNCHANGED <<health_score, alerts>>
    /\ pc' = "late"
    /\ UNCHANGED <<inputVars, calls, webhookVars, i, boardVars, debtVars, forecastVars>>

\* 3. late-night commits, and the return (lines 38-53)
CheckLateAndReturn ==
    /\ pc = "late"
    /\ IF late_commits(history) > 2
       THEN /\ health_score' = Max0(Deduct(health_score, 10))
            /\ alerts' = Append(alerts, [kind |-> "late_night", args |-> <<>>])
       ELSE /\ health_score' = Max0(health_score)
            /\ UNCHANGED alerts
    /\ pc' = "done"
    /\ UNCHANGED <<inputVars, calls, webhookVars, i, boardVars, debtVars, forecastVars>>

NextHealth == CheckStalled \/ CheckFixes \/ CheckLateAndReturn

DateEvening == <<"2", "0", "2", "4", "-", "0", "1", "-", "0", "6", "T", "2", "0", ":", "5", "9", ":", "5", "9", "Z">>

proj1 == <<"p", "r", "o", "j", "-", "1">>

CommitWith(message, date) == [hash |-> SomeHash, author |-> "alice", date |-> date, message |-> message, diff |-> NoDiff]

Ticket(id, status) == [id |-> id, title |-> id, status |-> status, assignee |-> "alice"]

\* Histories: commits naming FIX-3 in the morning, late commits without a
\* fix, at most one fix of PROJ-1 without a date and at most one commit on
\* PROJ-1 before 21:00.
HealthHistories == {Repeat(CommitWith(MsgBare, DateMorning), a) \o Repeat(CommitWith(MsgCloseGH, DateNight), b) \o Repeat(CommitWith(MsgFix, DateGarbage), c) \o Repeat(CommitWith(MsgWip, DateEvening), d) : a \in 0..MaxFixCommits, b \in 0..MaxLateCommits, c \in {0, 1}, d \in {0, 1}}

\* Boards: tickets in progress that no message names (proj-1), tickets in
\* progress named PROJ-1, and Done tickets that no message names.
HealthBoards == {Repeat(Ticket(proj1, "In Progress"), s) \o Repeat(Ticket(PROJ1, "In Progress"), m) \o Repeat(Ticket(proj1, "Done"), k) : s \in 0..MaxPerKind, m \in 0..MaxPerKind, k \in 0..MaxPerKind}

HealthStart ==
    /\ op = "calculate_health_score"
    /\ sprint_days = 14
    /\ days_elapsed = 7
    /\ pc = "stalled"
    /\ i = 1
    /\ IdleHealth
    /\ IdleBoard
    /\ IdleDebt
    /\ IdleForecast
    /\ SingleCall
    /\ IdleWebhook

InitHealth ==
    /\ history \in HealthHistories
    /\ board_in \in HealthBoards
    /\ HealthStart

SpecHealth == InitHealth /\ [][NextHealth]_vars

-----------------------------------------------------------------------------
(* Claims about the health score.                                          *)

\* The tickets the claim calls stalled: In Progress, and no commit message
\* has the id as a substring.
ClaimStalled == {k \in 1..Len(board_in) : board_in[k].status = "In Progress" /\ \A j \in 1..Len(history) : ~Contains(board_in[k].id, history[j].message)}

\* 15 when more than 3 commit messages contain 'fix' in any case, else 0
ClaimFixDeduction == IF Cardinality({j \in 1..Len(history) : Contains(<<"f", "i", "x">>, lower(history[j].message))}) > 3 THEN 15 ELSE 0

\* 10 when more than 2 commits have a parseable timestamp after hour 20
ClaimLateDeduction == IF Cardinality({j \in 1..Len(history) : strptime(history[j].date).ok /\ strptime(history[j].date).hour >= 21}) > 2 THEN 10 ELSE 0

\* total_tickets times the score of the claim, before the floor at 0 (the
\* stalled term is left out for an empty board)
ClaimScoreTimesTotal ==
    IF Len(board_in) = 0 THEN 100 - ClaimFixDeduction - ClaimLateDeduction
    ELSE (100 - ClaimFixDeduction - ClaimLateDeduction) * Len(board_in) - 30 * Cardinality(ClaimStalled)

C12_StalledCaseSensitive ==
    pc = "done" /\ op = "calculate_health_score" =>
        /\ (\E a \in 1..Len(alerts) : alerts[a].kind = "stalled") <=> ClaimStalled # {}
        /\ \A a \in 1..Len(alerts) : alerts[a].kind = "stalled" => alerts[a].args = <<Cardinality(ClaimStalled)>>
        /\ Len(board_in) = 0 =>
            /\ \A a \in 1..Len(alerts) : alerts[a].kind # "stalled"
            /\ health_score = [num |-> 100 - ClaimFixDeduction - ClaimLateDeduction, den |-> 1, float |-> FALSE]

\* A ticket proj-1 in progress counted as stalled although a message names PROJ-1.
C12_Witness ==
    /\ pc = "done" /\ op = "calculate_health_score"
    /\ \E k \in 1..Len(board_in) : board_in[k].id = proj1 /\ board_in[k].status = "In Progress"
    /\ \E j \in 1..Len(history) : Contains(PROJ1, history[j].message)
    /\ \A k \in 1..Len(board_in) : board_in[k].id = proj1
    /\ \E a \in 1..Len(alerts) : alerts[a].kind = "stalled"

\* C13: the score returned is an integer.
C13_ScoreIsInteger == pc = "done" /\ op = "calculate_health_score" => ~health_score.float /\ health_score.num % health_score.den = 0

\* The kinds of the alerts of the rules that deduct, in the order of the rules.
ClaimKinds ==
    (IF ClaimStalled # {} THEN <<"stalled">> ELSE <<>>)
    \o (IF ClaimFixDeduction > 0 THEN <<"bug_fixes">> ELSE <<>>)
    \o (IF ClaimLateDeduction > 0 THEN <<"late_night">> ELSE <<>>)

\* What the score has lost so far is at most limit.
LostAtMost(limit) == health_score.den > 0 /\ 100 * health_score.den - health_score.num <= limit * health_score.den

\* C30: the score is at least 45 for every board and batch: the stalled
\* deduction is at most 30, the fix deduction at most 15 and the late
\* deduction at most 10, so max(0, score) returns the score unchanged; and
\* the alerts returned are those of the rules that deducted, one each, in
\* the order stalled, fix density, off-hours.
C30_ScoreAtLeast45 ==
    /\ [](pc = "fixes" => LostAtMost(30))
    /\ [](pc = "late" => LostAtMost(45))
    /\ [](pc = "done" /\ op = "calculate_health_score" =>
              /\ LostAtMost(55)
              /\ health_score.num >= 45 * health_score.den
              /\ Len(alerts) = Len(ClaimKinds)
              /\ \A a \in 1..Len(alerts) : alerts[a].kind = ClaimKinds[a])
    /\ [][pc = "late" => health_score' \in {health_score, Deduct(health_score, 10)}]_vars

\* Every ticket stalled, more than 3 fixes and more than 2 late commits:
\* three alerts and the score 45.0.
C30_Witness ==
    /\ pc = "done" /\ op = "calculate_health_score"
    /\ Len(board_in) > 1
    /\ Cardinality(ClaimStalled) = Len(board_in)
    /\ Len(alerts) = 3
    /\ health_score.num = 45 * health_score.den

-----------------------------------------------------------------------------
(* Every operation, on small inputs that include the empty ones.           *)

Operations == {"discover_tickets", "calculate_debt_score", "generate_refactor_tickets", "calculate_health_score", "forecast_sprint"}

\* Where an operation starts.
StartOf(operation) ==
    CASE operation = "discover_tickets" -> "scan"
      [] operation \in {"calculate_debt_score", "generate_refactor_tickets"} -> "analyze"
      [] operation = "calculate_health_score" -> "stalled"
      [] operation = "forecast_sprint" -> "velocity"

AllCommits == {[hash |-> SomeHash, author |-> "alice", date |-> DateNight, message |-> MsgFix, diff |-> DiffBoth], [hash |-> SomeHash, author |-> "bob", date |-> DateGarbage, message |-> MsgWip, diff |-> NoDiff]}

AllTickets == {Ticket(PROJ1, "In Progress"), Ticket(proj1, "Done")}

InitAll ==
    /\ op \in Operations
    /\ history \in SeqUpTo(AllCommits, MaxAllCommits)
    /\ board_in \in SeqUpTo(AllTickets, MaxAllTickets)
    /\ IF op = "forecast_sprint"
       THEN sprint_days \in 0..MaxAllDays /\ days_elapsed \in 0..MaxAllDays
       ELSE sprint_days = 14 /\ days_elapsed = 7
    /\ pc = StartOf(op)
    /\ i = 1
    /\ IdleBoard
    /\ IdleDebt
    /\ IdleHealth
    /\ IdleForecast
    /\ SingleCall
    /\ IdleWebhook

NextAll == NextBoard \/ NextDebt \/ NextHealth \/ NextForecast

SpecAll == InitAll /\ [][NextAll]_vars

-----------------------------------------------------------------------------
(* The four analyses called on the same history and board, each on its own *)
(* object, their steps interleaved in any order.                           *)

Concurrent == {"discover_tickets", "generate_refactor_tickets", "calculate_health_score", "forecast_sprint"}

\* The entry of the running call in calls.
Running == [pc |-> "running", i |-> 0]

\* The running call is suspended where it is and another call that has not
\* returned goes on from where it was.
Schedule ==
    /\ calls # <<>>
    /\ \E o \in Concurrent \ {op} :
           /\ calls[o].pc \notin {"done", "raised"}
           /\ op' = o
           /\ pc' = calls[o].pc
           /\ i' = calls[o].i
           /\ calls' = [calls EXCEPT ![op] = [pc |-> pc, i |-> i], ![o] = Running]
    /\ UNCHANGED <<history, board_in, sprint_days, days_elapsed, boardVars, debtVars, healthVars, forecastVars, webhookVars>>

\* The empty board, and a board with a ticket no message names as it is
\* written.
InterleavedBoards == {<<>>, <<Ticket(proj1, "In Progress"), Ticket(PROJ1, "Done")>>}

InitInterleaved ==
    /\ op \in Concurrent
    /\ history \in SeqUpTo(AllCommits, MaxAllCommits)
    /\ board_in \in InterleavedBoards
    /\ sprint_days = 14
    /\ days_elapsed = 7
    /\ pc = StartOf(op)
    /\ i = 1
    /\ calls = [o \in Concurrent |-> IF o = op THEN Running ELSE [pc |-> StartOf(o), i |-> 1]]
    /\ IdleWebhook
    /\ IdleBoard
    /\ IdleDebt
    /\ IdleHealth
    /\ IdleForecast

NextInterleaved == NextBoard \/ NextDebt \/ NextHealth \/ NextForecast \/ Schedule

SpecInterleaved == InitInterleaved /\ [][NextInterleaved]_vars

\* Where the call of an operation is.
Position(o) == IF o = op \/ calls = <<>> THEN [pc |-> pc, i |-> i] ELSE calls[o]

\* The risks and recommendations of the rules that fire, in the order of
\* the rules.
RECURSIVE FiredRisks(_)
FiredRisks(rules) ==
    IF rules = <<>> THEN <<>>
    ELSE (IF RuleFires(Head(rules)) THEN <<RiskOf(Head(rules))>> ELSE <<>>) \o FiredRisks(Tail(rules))

RECURSIVE FiredRecommendations(_)
FiredRecommendations(rules) ==
    IF rules = <<>> THEN <<>>
    ELSE (IF RuleFires(Head(rules)) THEN <<RecommendationOf(Head(rules))>> ELSE <<>>) \o FiredRecommendations(Tail(rules))

\* What the running call returns is what it returns when it runs alone on
\* history and board_in.
ReturnsAsAlone ==
    CASE op = "discover_tickets" -> board \in discover_tickets(history)
      [] op \in {"calculate_debt_score", "generate_refactor_tickets"} ->
            /\ score = calculate_debt_score(history)
            /\ refactor_tickets = (IF op = "generate_refactor_tickets" THEN generate_refactor_tickets(history) ELSE <<>>)
      [] op = "calculate_health_score" ->
            [score |-> health_score, alerts |-> alerts] = calculate_health_score(board_in, history)
      [] op = "forecast_sprint" ->
            /\ velocity = get_commit_velocity(history, days_elapsed)
            /\ progress = get_ticket_progress(board_in, days_elapsed, sprint_days)
            /\ risk_level = FoldRules(<<1, 2, 3, 4>>, "LOW")
            /\ risks = FiredRisks(<<1, 2, 3, 4>>)
            /\ recommendations = FiredRecommendations(<<1, 2, 3, 4>>)

\* The result of an operation.
ResultOf(o) ==
    CASE o = "discover_tickets" -> <<board>>
      [] o \in {"calculate_debt_score", "generate_refactor_tickets"} -> <<score, refactor_tickets>>
      [] o = "calculate_health_score" -> <<health_score, alerts>>
      [] o = "forecast_sprint" -> <<velocity, progress, risk_level, risks, recommendations>>

\* C25: no step of discover_tickets, generate_refactor_tickets (with its
\* calculate_debt_score), forecast_sprint or calculate_health_score changes
\* the commit records or the board, and in every interleaving of the four
\* calls on the same inputs each call returns the result it returns when it
\* runs alone on these inputs, and no step of another call changes a result
\* that was returned.
C25_NoInterference ==
    /\ [][history' = history /\ board_in' = board_in]_vars
    /\ [](pc = "done" => ReturnsAsAlone)
    /\ [][\A o \in Concurrent : Position(o).pc = "done" => ResultOf(o)' = ResultOf(o)]_vars

\* The health score and the forecast have returned, with alerts and risks,
\* while discover_tickets and generate_refactor_tickets are each suspended
\* after their first commit of two.
C25_Witness ==
    /\ calls # <<>>
    /\ Len(history) = 2 /\ board_in # <<>>
    /\ Position("calculate_health_score").pc = "done" /\ alerts # <<>>
    /\ Position("forecast_sprint").pc = "done" /\ risks # <<>>
    /\ Position("discover_tickets") = [pc |-> "scan", i |-> 2] /\ ticket_data # <<>>
    /\ Position("generate_refactor_tickets") = [pc |-> "analyze", i |-> 2] /\ debt_items # <<>>

-----------------------------------------------------------------------------
(* Claims about the range of the rates and about failures.                 *)

\* C14: in every forecast result with sprint_days >= 1 both rates are
\* percentages in [0, 100] (rates in tenths).
C14_RatesArePercentages ==
    pc = "done" /\ op = "forecast_sprint" /\ sprint_days >= 1 =>
        /\ progress.completion_rate >= 0 /\ progress.completion_rate <= 1000
        /\ progress.expected_rate >= 0 /\ progress.expected_rate <= 1000

\* An operation is over: it returned.
Returned == pc = "done"

\* C15: on an empty commit batch or an empty board no operation raises, and
\* each returns its default: discover_tickets an empty board;
\* calculate_debt_score 0 and no items, generate_refactor_tickets no tickets;
\* calculate_health_score no stalled deduction on an empty board, and the int
\* 100 with no alerts when the batch is empty too; forecast_sprint
\* (sprint_days >= 1) total_commits 0 and avg_daily 0 for the empty batch,
\* total 0 and completion_rate 0 for the empty board.
C15_EmptyInputDefaults ==
    /\ (history = <<>> \/ board_in = <<>>) /\ (op = "forecast_sprint" => sprint_days >= 1) => pc # "raised"
    /\ Returned /\ op = "discover_tickets" /\ history = <<>> => board = <<>>
    /\ Returned /\ op \in {"calculate_debt_score", "generate_refactor_tickets"} /\ history = <<>> =>
        score = 0 /\ debt_items = <<>> /\ refactor_tickets = <<>>
    /\ Returned /\ op = "calculate_health_score" /\ board_in = <<>> =>
        /\ \A a \in 1..Len(alerts) : alerts[a].kind # "stalled"
        /\ ~health_score.float
        /\ history = <<>> => health_score = [num |-> 100, den |-> 1, float |-> FALSE] /\ alerts = <<>>
    /\ Returned /\ op = "forecast_sprint" /\ sprint_days >= 1 =>
        /\ history = <<>> => velocity.total_commits = 0 /\ velocity.avg_daily = 0
        /\ board_in = <<>> => progress.total = 0 /\ progress.completion_rate = 0

\* A forecast on no commits and no tickets that returned.
C15_Witness ==
    /\ Returned /\ op = "forecast_sprint"
    /\ history = <<>> /\ board_in = <<>>
    /\ progress.completion_rate = 0
    /\ velocity.avg_daily = 0

\* C16: forecast_sprint never raises, whatever sprint_days >= 0 and
\* days_elapsed >= 0 are.
C16_ForecastNeverRaises == op = "forecast_sprint" => pc # "raised"

-----------------------------------------------------------------------------
(* discover_tickets on single commits, over more messages.                 *)

MsgHash42 == <<"#", "4", "2">>

MsgTwice == <<"P", "R", "O", "J", "-", "1", " ", "P", "R", "O", "J", "-", "1">>

MsgGHAndHash == <<"G", "H", "-", "1", "2", " ", "#", "1", "2">>

MsgLower == <<"p", "r", "o", "j", "-", "1", "2">>

MsgMixed == <<"P", "r", "o", "j", "-", "1", "2">>

MsgGlued == <<"s", "e", "e", " ", "A", "B", "C", "-", "9", " ", "#", "4", "2", "a", "b", "c">>

MsgShort == <<"A", "-", "1", " ", "A", "B", "-", "2">>

ExtractMessages == BoardMessages \cup {MsgHash42, MsgTwice, MsgGHAndHash, MsgLower, MsgMixed, MsgGlued, MsgShort}

InitExtract ==
    /\ op = "discover_tickets"
    /\ \E a \in Authors, d \in BoardDates, m \in ExtractMessages :
           history = <<[hash |-> SomeHash, author |-> a, date |-> d, message |-> m, diff |-> NoDiff]>>
    /\ board_in = <<>>
    /\ sprint_days = 14
    /\ days_elapsed = 7
    /\ pc = "scan"
    /\ i = 1
    /\ IdleBoard
    /\ IdleDebt
    /\ IdleHealth
    /\ IdleForecast
    /\ SingleCall
    /\ IdleWebhook

SpecExtract == InitExtract /\ [][NextBoard]_vars

-----------------------------------------------------------------------------
(* Claims about the extraction and the order of the board.                 *)

\* The message _extract_tickets was last called on.
LastMessage == history[i - 1].message

\* What the patterns capture in a message, before any rewriting.
RawMatches(m) == UNION {Range(findall(TICKET_PATTERNS[n], m, 1)) : n \in 1..Len(TICKET_PATTERNS)}

\* s consists of digits only (and is not empty)
OnlyDigits(s) == s # <<>> /\ \A k \in 1..Len(s) : s[k] \in {"0", "1", "2", "3", "4", "5", "6", "7", "8", "9"}

\* C17: the list _extract_tickets returns holds exactly the captured matches,
\* one of digits only as '#' and the digits and any other unchanged (the
\* message '#42' gives ['#42']), and holds no id twice.
C17_NormalizedNoDuplicates ==
    pc = "scan" /\ i > 1 =>
        /\ Range(ticket_ids) = {IF OnlyDigits(g) THEN <<"#">> \o g ELSE g : g \in RawMatches(LastMessage)}
        /\ \A a, b \in 1..Len(ticket_ids) : ticket_ids[a] = ticket_ids[b] => a = b
        /\ LastMessage = MsgHash42 => ticket_ids = <<MsgHash42>>

\* 'GH-12 #12' scanned: 12 is captured by two patterns and '#12' returned once.
C17_Witness ==
    /\ pc = "scan" /\ i > 1
    /\ LastMessage = MsgGHAndHash
    /\ Cardinality({k \in 1..Len(ticket_ids) : ticket_ids[k] = <<"#", "1", "2">>}) = 1

\* Letters of either case.
LetterChars == Range(UpperLetters) \cup Range(LowerLetters)

\* The tokens LETTERS(2-10)-DIGITS of a message, as <<start, end>>: a run of
\* 2 to 10 letters that starts at a word boundary, '-', digits, a word
\* boundary.
LetterTokens(m) ==
    {pe \in (1..Len(m)) \X (1..(Len(m) + 1)) :
        LET n == RunLen(m, pe[1], LetterChars)
            d == pe[1] + n + 1
        IN  /\ WordBoundary(m, pe[1])
            /\ n \in 2..10
            /\ d - 1 <= Len(m) /\ m[d - 1] = "-"
            /\ RunLen(m, d, DigitChars) >= 1
            /\ pe[2] = d + RunLen(m, d, DigitChars)
            /\ WordBoundary(m, pe[2])}

\* C18: every token LETTERS(2-10)-DIGITS of the message, in whatever case, is
\* among the ids returned, verbatim.
C18_AnyCaseRecognized ==
    pc = "scan" /\ i > 1 =>
        \A pe \in LetterTokens(LastMessage) : \E k \in 1..Len(ticket_ids) : ticket_ids[k] = SubSeq(LastMessage, pe[1], pe[2] - 1)

\* C19: the board returned is in non-increasing order of last_seen (compared
\* as str), and the tickets with an empty last_seen come last.
C19_BoardSortedByLastSeen ==
    pc = "done" /\ op = "discover_tickets" =>
        /\ \A a \in 1..(Len(board) - 1) : ~StrLess(board[a].last_seen, board[a + 1].last_seen)
        /\ \A a, b \in 1..Len(board) : a < b /\ board[a].last_seen = <<>> => board[b].last_seen = <<>>

\* A board of a ticket seen at night and one with no date, discovered in the
\* other order.
C19_Witness ==
    /\ pc = "done" /\ op = "discover_tickets"
    /\ Len(board) >= 2
    /\ board[1].last_seen = DateNight
    /\ board[Len(board)].last_seen = <<>>
    /\ history[1].date = <<>>

-----------------------------------------------------------------------------
(* github_app: the webhook endpoint and the comment on the pull request.   *)
(* Every request gets a WebhookHandler of its own (app.py line 80); the    *)
(* comments of the pull request live on GitHub and are shared.  The steps  *)
(* of the requests interleave: the server handles requests concurrently    *)
(* and nothing in the handler serialises them.                             *)

\* find_bot_comment: the id of the first comment whose body carries the
\* marker, None (0) when there is none.  Ids start at 1.
find_bot_comment(cs) ==
    IF \E k \in 1..Len(cs) : cs[k].marker
    THEN cs[CHOOSE k \in 1..Len(cs) : cs[k].marker /\ \A j \in 1..(k - 1) : ~cs[j].marker].id
    ELSE 0

\* The events a request can carry: X-GitHub-Event and payload['action'].
Deliveries == {[event |-> "pull_request", action |-> a] : a \in {"opened", "synchronize", "closed"}} \cup {[event |-> "push", action |-> ""]}

\* The comments the pull request can have before the requests: none, one of
\* a user, one left by an earlier analysis.
EarlierComments == {<<>>, <<[id |-> 1, marker |-> FALSE, by |-> 0]>>, <<[id |-> 1, marker |-> TRUE, by |-> 0]>>}

InitWebhook ==
    /\ op = "webhook"
    /\ history = <<>>
    /\ board_in = <<>>
    /\ sprint_days = 14
    /\ days_elapsed = 7
    /\ pc = "serving"
    /\ i = 1
    /\ calls = <<>>
    /\ comments \in EarlierComments
    /\ \E n \in 1..MaxEvents : handlers \in [1..n -> {[event |-> d.event, action |-> d.action, pc |-> "received", existing |-> 0] : d \in Deliveries}]
    /\ IdleBoard
    /\ IdleDebt
    /\ IdleHealth
    /\ IdleForecast

\* handle() of request h (webhook_handler.py lines 30-39): opened and
\* synchronize go to _handle_pr, which fetches the PR data, runs the analyses
\* and formats the comment (lines 41-86); every other event is answered
\* without a comment.
Handle ==
    \E h \in DOMAIN handlers :
        /\ handlers[h].pc = "received"
        /\ handlers' = [handlers EXCEPT ![h].pc =
                IF handlers[h].event = "pull_request" /\ handlers[h].action \in {"opened", "synchronize"}
                THEN "formatted" ELSE "ignored"]
        /\ UNCHANGED <<inputVars, calls, pc, i, comments, boardVars, debtVars, healthVars, forecastVars>>

\* existing = self.github.find_bot_comment(...) (line 89): a GET of the
\* comments as they are now.
FindBotComment ==
    \E h \in DOMAIN handlers :
        /\ handlers[h].pc = "formatted"
        /\ handlers' = [handlers EXCEPT ![h].pc = "found", ![h].existing = find_bot_comment(comments)]
        /\ UNCHANGED <<inputVars, calls, pc, i, comments, boardVars, debtVars, healthVars, forecastVars>>

\* if existing: update_comment (lines 90-92): a PATCH of the comment's body.
UpdateComment ==
    \E h \in DOMAIN handlers :
        /\ handlers[h].pc = "found"
        /\ handlers[h].existing # 0
        /\ comments' = [k \in 1..Len(comments) |->
                IF comments[k].id = handlers[h].existing THEN [comments[k] EXCEPT !.marker = TRUE, !.by = h] ELSE comments[k]]
        /\ handlers' = [handlers EXCEPT ![h].pc = "analyzed"]
        /\ UNCHANGED <<inputVars, calls, pc, i, boardVars, debtVars, healthVars, forecastVars>>

\* else: post_comment (lines 93-95): a POST that creates a comment with the
\* formatted body, which starts with the marker (line 173).
PostComment ==
    \E h \in DOMAIN handlers :
        /\ handlers[h].pc = "found"
        /\ handlers[h].existing = 0
        /\ comments' = Append(comments, [id |-> Len(comments) + 1, marker |-> TRUE, by |-> h])
        /\ handlers' = [handlers EXCEPT ![h].pc = "analyzed"]
        /\ UNCHANGED <<inputVars, calls, pc, i, boardVars, debtVars, healthVars, forecastVars>>

NextWebhook == Handle \/ FindBotComment \/ UpdateComment \/ PostComment

SpecWebhook == InitWebhook /\ [][NextWebhook]_vars

\* The comments that carry the marker.
BotComments == {k \in 1..Len(comments) : comments[k].marker}

\* C26: whatever pull_request opened / synchronize events are handled for
\* the pull request, one after the other or overlapping, the pull request
\* has at most one comment with the marker.
C26_OneBotComment == Cardinality(BotComments) <= 1

-----------------------------------------------------------------------------
(* The board discovered from a batch, given with the batch to the health   *)
(* score (main.py: load_real_data, then PredictiveAgile(history, board)).  *)

\* board = board_scanner.discover_tickets() is returned with history (lines
\* 71-79) and main passes both to PredictiveAgile (lines 182-183).
PassBoard ==
    /\ op = "discover_tickets"
    /\ pc = "done"
    /\ board_in' = board
    /\ op' = "calculate_health_score"
    /\ pc' = "stalled"
    /\ UNCHANGED <<history, sprint_days, days_elapsed, i, calls, webhookVars, boardVars, debtVars, healthVars, forecastVars>>

NextPipeline == ScanCommit \/ BuildBoard \/ PassBoard \/ CheckStalled \/ CheckFixes \/ CheckLateAndReturn

SpecPipeline == InitBoard /\ [][NextPipeline]_vars

\* C27: when the board discovered from a batch is passed with the batch to
\* calculate_health_score, every ticket id of the board is a substring of
\* some commit message, no ticket counts as stalled and there is no stalled
\* alert or deduction.
C27_NoStalledAfterDiscovery ==
    op = "calculate_health_score" =>
        /\ \A k \in 1..Len(board_in) : \E j \in 1..Len(history) : Contains(board_in[k].id, history[j].message)
        /\ ClaimStalled = {}
        /\ \A a \in 1..Len(alerts) : alerts[a].kind # "stalled"
        /\ ~health_score.float

====
